---- MODULE Spec2Model ----
(***************************************************************************)
(* Model of the Notion duplicate-detection system: the name normaliser,    *)
(* the SQLite name index, the webhook handler (Real-time Detector,         *)
(* duplicate-checker-deploy.ts), the index builder (Resumable Scanner,     *)
(* index-builder-deploy.ts), the backfill script (Reconciler,              *)
(* backfill-local-deploy.ts) and the retry with backoff of their calls.    *)
(*                                                                         *)
(* Strings are sequences of one-character strings, so that trim and        *)
(* toLowerCase are computed character by character as the runtime does.    *)
(* A title property is the sequence of its rich-text segments: <<>> when   *)
(* the property is absent, <<name>> otherwise.                             *)
(***************************************************************************)
EXTENDS Integers, Sequences, FiniteSets, TLC

\* Number of records (pages) of the Notion database, ids 1..NumIds.
NumIds == 3

\* Records per page of a database query (the code asks for 100).
BATCH_SIZE == 2

\* Longest raw name drawn when the normaliser is checked on its own.
MaxLen == 3

\* Largest maxRetries drawn for retryWithBackoff (the default of the code,
\* which every call uses, is 3).
MaxRetries == 3

Ids == 1..NumIds

\* The alphabet of raw names: two letters in both cases and two kinds of
\* whitespace that String.prototype.trim removes.
Chars == {"a", "A", "b", "B", " ", "\t"}

VARIABLES
    db,         \* Notion: the record ids a database query returns, in order
    titles,     \* Notion: record id -> title property (the "клиент" column)
    tags,       \* Notion: record id -> "Duplicate Flag" select value
    index,      \* SQLite table name_index: rows in rowid order
    progress,   \* SQLite table index_builder_progress: <<>> or <<row>>
    hs,         \* webhook handler invocations, one per worker slot
    sc,         \* index builder invocations, one per slot
    hist,       \* the last delivery a handler finished, and how it went
    nrm,        \* the normaliser on its own: a raw name, a variant, the keys
    rc,         \* the backfill script: one run of main()
    rt,         \* one call to SQLite or to the Notion API, with its retries
    flagType    \* Notion: the type of "Duplicate Flag", select or multi_select

vars == <<db, titles, tags, index, progress, hs, sc, hist, nrm, rc, rt, flagType>>

----------------------------------------------------------------------------
(* Normalizer *)

IsSpace(c) == c \in {" ", "\t"}

LowerChar(c) ==
    CASE c = "A" -> "a"
      [] c = "B" -> "b"
      [] OTHER -> c

\* String.prototype.toLowerCase
toLowerCase(s) == [i \in 1..Len(s) |-> LowerChar(s[i])]

RECURSIVE trimStart(_)
trimStart(s) ==
    IF s # <<>> /\ IsSpace(Head(s)) THEN trimStart(Tail(s)) ELSE s

RECURSIVE trimEnd(_)
trimEnd(s) ==
    IF s # <<>> /\ IsSpace(s[Len(s)]) THEN trimEnd(SubSeq(s, 1, Len(s) - 1)) ELSE s

\* String.prototype.trim
trim(s) == trimEnd(trimStart(s))

\* duplicate-checker-deploy.ts normalizeName
normalizeName(name) == toLowerCase(trim(name))

\* Mutant: the key is trimmed but keeps its case.
normalizeNameTrimOnly(name) == trim(name)

\* index-builder-deploy.ts normalizeName
normalizeNameBuilder(name) == toLowerCase(trim(name))

\* backfill-local-deploy.ts normalizeName
normalizeNameBackfill(name) == toLowerCase(trim(name))

----------------------------------------------------------------------------
(* Index Store: table name_index *)

\* SQLite's NOCASE collation folds the 26 ASCII upper-case letters.
NoCaseFold(s) == [i \in 1..Len(s) |-> LowerChar(s[i])]

\* name = ? on a column declared COLLATE NOCASE
NoCaseEq(a, b) == NoCaseFold(a) = NoCaseFold(b)

IndexedIds(idx) == {idx[i].pid : i \in 1..Len(idx)}

RowsOf(idx, pid) == {i \in 1..Len(idx) : idx[i].pid = pid}

\* Mutant: the table has no UNIQUE constraint on notion_page_id.
SqlInsertNoUnique(idx, key, pid) ==
    [rows |-> Append(idx, [name |-> key, pid |-> pid]), err |-> "none"]

\* INSERT INTO name_index (name, notion_page_id) VALUES (?, ?): the UNIQUE
\* constraint on notion_page_id rejects a second row for the page.
SqlInsert(idx, key, pid) ==
    IF pid \in IndexedIds(idx)
    THEN [rows |-> idx, err |-> "UNIQUE constraint"]
    ELSE [rows |-> Append(idx, [name |-> key, pid |-> pid]), err |-> "none"]

RECURSIVE SelectPageIds(_, _)
\* SELECT notion_page_id FROM name_index WHERE name = ?
SelectPageIds(idx, key) ==
    IF idx = <<>> THEN <<>>
    ELSE IF NoCaseEq(Head(idx).name, key)
         THEN <<Head(idx).pid>> \o SelectPageIds(Tail(idx), key)
         ELSE SelectPageIds(Tail(idx), key)

\* findDuplicatePages
findDuplicatePages(idx, normalizedName) == SelectPageIds(idx, normalizedName)

----------------------------------------------------------------------------
(* Record API: the "Duplicate Flag" select property *)

\* Select values: "null" is an unset select.
LowerTag(t) ==
    CASE t = "Duplicate" -> "duplicate"
      [] t = "DUPLICATE" -> "duplicate"
      [] t = "Other" -> "other"
      [] OTHER -> t

\* updateNotionTags: existingTag?.name?.toLowerCase() === "duplicate"
hasDuplicateTag(existingTag) == existingTag # "null" /\ LowerTag(existingTag) = "duplicate"

Tagged(id) == hasDuplicateTag(tags[id])

----------------------------------------------------------------------------
(* Real-time Detector: the webhook handler *)

Handlers == {"h1", "h2"}

NoResp == [status |-> 0, success |-> FALSE, skipped |-> FALSE,
           duplicate |-> FALSE, error |-> "none"]

\* JSON.stringify({success: false, skipped: true, reason}) with status 200
SkippedResp(reason) == [status |-> 200, success |-> FALSE, skipped |-> TRUE,
                        duplicate |-> FALSE, error |-> reason]

\* Mutant: the catch block answers 500.
ErrorResp500(message) == [status |-> 500, success |-> FALSE, skipped |-> FALSE,
                          duplicate |-> FALSE, error |-> message]

\* The catch block of handler: status 200, success false, the error message
ErrorResp(message) == [status |-> 200, success |-> FALSE, skipped |-> FALSE,
                       duplicate |-> FALSE, error |-> message]

\* The two success responses of handler
SuccessResp(duplicate) == [status |-> 200, success |-> TRUE, skipped |-> FALSE,
                           duplicate |-> duplicate, error |-> "none"]

MethodNotAllowed == [status |-> 405, success |-> FALSE, skipped |-> FALSE,
                     duplicate |-> FALSE, error |-> "Method not allowed"]

IdleHandler == [pc |-> "idle", pageId |-> 0, name |-> <<>>, others |-> <<>>,
                k |-> 0, tag |-> "null", failed |-> {}, post |-> FALSE,
                resp |-> NoResp]

\* Nothing handled yet; track says whether finished deliveries are recorded.
NoDelivery(track) == [track |-> track, pageId |-> 0, name |-> <<>>, clean |-> FALSE]

\* A delivery: the HTTP method, whether the body parses as JSON, whether it
\* carries an id, the id and the title property.
Deliveries ==
    [method : {"POST"}, json : {TRUE}, hasId : {TRUE}, id : Ids,
     title : {<<>>, << <<>> >>}]
    \cup {[method |-> "POST", json |-> TRUE, hasId |-> TRUE, id |-> i,
           title |-> titles[i]] : i \in Ids}
    \cup {[method |-> "POST", json |-> FALSE, hasId |-> FALSE, id |-> 0, title |-> <<>>],
          [method |-> "POST", json |-> TRUE, hasId |-> FALSE, id |-> 0, title |-> <<>>],
          [method |-> "GET", json |-> TRUE, hasId |-> TRUE, id |-> 1, title |-> <<>>]}

\* Mutant: only an absent title is rejected, an empty name is not.
NoPlainTextAbsentOnly(title) == Len(title) = 0

\* !pageData.properties?.["клиент"]?.title?.[0]?.plain_text
NoPlainText(title) == Len(title) = 0 \/ Len(title[1]) = 0

\* A handler that returns: the response is kept until the slot is reused.
Finish(h, resp) == [h EXCEPT !.pc = "done", !.resp = resp]

\* The delivery just finished, for comparing with its redelivery.
Finished(h, resp) ==
    IF hist.track
    THEN [track |-> TRUE, pageId |-> h.pageId, name |-> h.name,
          clean |-> resp.success /\ h.failed = {}]
    ELSE hist

\* Mutant: no match is kept.
otherDuplicatesNone(duplicatePageIds, pageId) == <<>>

\* Mutant: the delivered page is not filtered out of the matches.
otherDuplicatesUnfiltered(duplicatePageIds, pageId) == duplicatePageIds

\* otherDuplicates = duplicatePageIds.filter(id => id !== pageId)
otherDuplicates(duplicatePageIds, pageId) ==
    SelectSeq(duplicatePageIds, LAMBDA id : id # pageId)

\* handler, from the method check to findDuplicatePages; ok is the outcome of
\* the index query.
HStart(s, ev, ok) ==
    /\ hs[s].pc = "idle"
    /\ LET h0 == [IdleHandler EXCEPT !.post = (ev.method = "POST")] IN
       IF ev.method # "POST" THEN
           /\ hs' = [hs EXCEPT ![s] = Finish(h0, MethodNotAllowed)]
           /\ UNCHANGED hist
       ELSE IF ~ev.json THEN
           /\ hs' = [hs EXCEPT ![s] = Finish(h0, SkippedResp("Invalid JSON in request body"))]
           /\ UNCHANGED hist
       ELSE IF ~ev.hasId THEN
           /\ hs' = [hs EXCEPT ![s] = Finish(h0, SkippedResp("Missing 'id' field in webhook body"))]
           /\ UNCHANGED hist
       ELSE IF NoPlainText(ev.title) THEN
           /\ hs' = [hs EXCEPT ![s] = Finish(h0, SkippedResp("Missing or invalid property"))]
           /\ UNCHANGED hist
       ELSE
           LET name == ev.title[1]
               normalizedName == normalizeName(name)
               duplicatePageIds == findDuplicatePages(index, normalizedName)
               others == otherDuplicates(duplicatePageIds, ev.id)
               h1 == [h0 EXCEPT !.pageId = ev.id, !.name = name]
           IN IF ~ok THEN
                  /\ hs' = [hs EXCEPT ![s] = Finish(h1, ErrorResp("index query failed"))]
                  /\ hist' = Finished(h1, ErrorResp("index query failed"))
              ELSE
                  /\ hs' = [hs EXCEPT ![s] =
                              [h1 EXCEPT !.others = others,
                                         !.pc = IF Len(others) > 0 THEN "fetchOwn" ELSE "insert"]]
                  /\ UNCHANGED hist
    /\ UNCHANGED <<db, titles, tags, index, progress, sc, nrm, rc, rt, flagType>>

\* const currentPage = await fetchNotionPage(pageId)
HFetchOwn(s, ok) ==
    /\ hs[s].pc = "fetchOwn"
    /\ IF ok THEN
           /\ hs' = [hs EXCEPT ![s].pc = "tagOwn", ![s].tag = tags[hs[s].pageId]]
           /\ UNCHANGED hist
       ELSE
           /\ hs' = [hs EXCEPT ![s] = Finish(hs[s], ErrorResp("Failed to fetch Notion page"))]
           /\ hist' = Finished(hs[s], ErrorResp("Failed to fetch Notion page"))
    /\ UNCHANGED <<db, titles, tags, index, progress, sc, nrm, rc, rt, flagType>>

\* Mutant: the PATCH clears the select.
PatchClear(t, pageId) == [t EXCEPT ![pageId] = "null"]

\* The PATCH of updateNotionTags: the select is set to "Duplicate".
PatchDuplicate(t, pageId) == [t EXCEPT ![pageId] = "Duplicate"]

\* Where the loop over otherDuplicates goes after its k-th pass.
AfterDup(h) ==
    IF h.k < Len(h.others)
    THEN [h EXCEPT !.pc = "fetchDup", !.k = h.k + 1]
    ELSE [h EXCEPT !.pc = "insert", !.k = 0, !.tag = "null"]

\* await updateNotionTags(pageId, currentTag)
HTagOwn(s, ok) ==
    /\ hs[s].pc = "tagOwn"
    /\ LET h == hs[s] IN
       IF hasDuplicateTag(h.tag) THEN
           /\ hs' = [hs EXCEPT ![s] = [h EXCEPT !.pc = "fetchDup", !.k = 1, !.tag = "null"]]
           /\ UNCHANGED <<tags, hist>>
       ELSE IF ok THEN
           /\ tags' = PatchDuplicate(tags, h.pageId)
           /\ hs' = [hs EXCEPT ![s] = [h EXCEPT !.pc = "fetchDup", !.k = 1, !.tag = "null"]]
           /\ UNCHANGED hist
       ELSE
           /\ hs' = [hs EXCEPT ![s] = Finish(h, ErrorResp("Failed to update Notion page"))]
           /\ hist' = Finished(h, ErrorResp("Failed to update Notion page"))
           /\ UNCHANGED tags
    /\ UNCHANGED <<db, titles, index, progress, sc, nrm, rc, rt, flagType>>

\* Mutant: no try/catch inside the loop, the failure reaches the outer catch.
CatchDupRethrow(h) == Finish(h, ErrorResp("Failed to fetch Notion page"))

\* What the catch inside the loop over otherDuplicates does with a failure
\* for one matched page: it logs it and goes on with the next page.
CatchDup(h) == AfterDup([h EXCEPT !.failed = @ \cup {h.others[h.k]}, !.tag = "null"])

\* const duplicatePage = await fetchNotionPage(duplicatePageId), inside try
HFetchDup(s, ok) ==
    /\ hs[s].pc = "fetchDup"
    /\ LET h == hs[s] IN
       IF ok THEN hs' = [hs EXCEPT ![s].pc = "tagDup", ![s].tag = tags[h.others[h.k]]]
       ELSE hs' = [hs EXCEPT ![s] = CatchDup(h)]
    /\ UNCHANGED <<db, titles, tags, index, progress, sc, hist, nrm, rc, rt, flagType>>

\* await updateNotionTags(duplicatePageId, duplicateTag), inside try
HTagDup(s, ok) ==
    /\ hs[s].pc = "tagDup"
    /\ LET h == hs[s] IN
       IF hasDuplicateTag(h.tag) THEN
           /\ hs' = [hs EXCEPT ![s] = AfterDup([h EXCEPT !.tag = "null"])]
           /\ UNCHANGED tags
       ELSE IF ok THEN
           /\ tags' = PatchDuplicate(tags, h.others[h.k])
           /\ hs' = [hs EXCEPT ![s] = AfterDup([h EXCEPT !.tag = "null"])]
       ELSE
           /\ hs' = [hs EXCEPT ![s] = CatchDup(h)]
           /\ UNCHANGED tags
    /\ UNCHANGED <<db, titles, index, progress, sc, hist, nrm, rc, rt, flagType>>

\* Mutant: the UNIQUE constraint error is thrown like any other.
insertNameIndexRethrow(idx, name, pageId, ok) ==
    LET r == SqlInsert(idx, normalizeName(name), pageId)
    IN IF ~ok \/ r.err = "UNIQUE constraint"
       THEN [rows |-> idx, thrown |-> TRUE, inserted |-> FALSE]
       ELSE [rows |-> r.rows, thrown |-> FALSE, inserted |-> TRUE]

\* Mutant: a page that is indexed already has its row rewritten under the
\* new name (an upsert).
insertNameIndexUpsert(idx, name, pageId, ok) ==
    LET normalizedName == normalizeName(name)
        r == SqlInsert(idx, normalizedName, pageId)
    IN IF ~ok THEN [rows |-> idx, thrown |-> TRUE, inserted |-> FALSE]
       ELSE IF r.err = "UNIQUE constraint"
       THEN [rows |-> [k \in 1..Len(idx) |->
                         IF idx[k].pid = pageId
                         THEN [idx[k] EXCEPT !.name = normalizedName]
                         ELSE idx[k]],
             thrown |-> FALSE, inserted |-> FALSE]
       ELSE [rows |-> r.rows, thrown |-> FALSE, inserted |-> TRUE]

\* insertNameIndex: the UNIQUE constraint error is swallowed, any other
\* error of the INSERT is thrown again.  Result: the rows and what is thrown.
insertNameIndex(idx, name, pageId, ok) ==
    LET normalizedName == normalizeName(name)
        r == SqlInsert(idx, normalizedName, pageId)
    IN IF ~ok THEN [rows |-> idx, thrown |-> TRUE, inserted |-> FALSE]
       ELSE IF r.err = "UNIQUE constraint"
       THEN [rows |-> r.rows, thrown |-> FALSE, inserted |-> FALSE]
       ELSE [rows |-> r.rows, thrown |-> FALSE, inserted |-> TRUE]

\* await insertNameIndex(name, pageId) and the success response, in either
\* branch of handler
HInsert(s, ok) ==
    /\ hs[s].pc = "insert"
    /\ LET h == hs[s]
           r == insertNameIndex(index, h.name, h.pageId, ok)
           resp == IF r.thrown THEN ErrorResp("index insert failed")
                   ELSE SuccessResp(Len(h.others) > 0)
       IN /\ index' = r.rows
          /\ hs' = [hs EXCEPT ![s] = Finish(h, resp)]
          /\ hist' = Finished(h, resp)
    /\ UNCHANGED <<db, titles, tags, progress, sc, nrm, rc, rt, flagType>>

\* The response has been sent; the worker slot takes the next delivery.
HReturn(s) ==
    /\ hs[s].pc = "done"
    /\ hs' = [hs EXCEPT ![s] = IdleHandler]
    /\ UNCHANGED <<db, titles, tags, index, progress, sc, hist, nrm, rc, rt, flagType>>

----------------------------------------------------------------------------
(* Resumable Scanner: the index builder *)

Builders == {"b1", "b2"}

\* Mutant: every page is reported as the last one.
queryNotionDatabaseNoMore(database, startCursor, pageSize) ==
    LET start == IF startCursor # 0 THEN startCursor ELSE 1
        last == IF start + pageSize - 1 < Len(database)
                THEN start + pageSize - 1 ELSE Len(database)
    IN [results |-> SubSeq(database, start, last),
        next_cursor |-> 0,
        has_more |-> FALSE]

\* Mutant: a query with a cursor begins one record after the cursor.
queryNotionDatabaseSkipFirst(database, startCursor, pageSize) ==
    LET start == IF startCursor # 0 THEN startCursor + 1 ELSE 1
        last == IF start + pageSize - 1 < Len(database)
                THEN start + pageSize - 1 ELSE Len(database)
        more == last < Len(database)
    IN [results |-> SubSeq(database, start, last),
        next_cursor |-> IF more THEN last + 1 ELSE 0,
        has_more |-> more]

\* Cursors are positions in the database; 0 is null (no cursor).
queryNotionDatabase(database, startCursor, pageSize) ==
    LET start == IF startCursor # 0 THEN startCursor ELSE 1
        last == IF start + pageSize - 1 < Len(database)
                THEN start + pageSize - 1 ELSE Len(database)
        more == last < Len(database)
    IN [results |-> SubSeq(database, start, last),
        next_cursor |-> IF more THEN last + 1 ELSE 0,
        has_more |-> more]

NewProgress == [last_cursor |-> 0, total_indexed |-> 0, completed |-> FALSE]

\* Mutant: the UPDATE leaves last_cursor as it is.
updateProgressKeepCursor(prog, data) ==
    IF prog = <<>> THEN prog
    ELSE <<[data EXCEPT !.last_cursor = prog[1].last_cursor]>>

\* UPDATE index_builder_progress SET ... WHERE id = 1
updateProgress(prog, data) == IF prog = <<>> THEN prog ELSE <<data>>

\* Mutant: every error of the INSERT is taken for "already exists".
insertIntoIndexSwallowAll(idx, name, pageId, ok) ==
    LET r == SqlInsert(idx, normalizeNameBuilder(name), pageId)
    IN IF ~ok \/ r.err = "UNIQUE constraint"
       THEN [rows |-> idx, thrown |-> FALSE, inserted |-> FALSE]
       ELSE [rows |-> r.rows, thrown |-> FALSE, inserted |-> TRUE]

\* Mutant: a row that exists already is reported as inserted.
insertIntoIndexCountExisting(idx, name, pageId, ok) ==
    LET r == SqlInsert(idx, normalizeNameBuilder(name), pageId)
    IN IF ~ok THEN [rows |-> idx, thrown |-> TRUE, inserted |-> FALSE]
       ELSE [rows |-> r.rows, thrown |-> FALSE, inserted |-> TRUE]

\* insertIntoIndex: true when the row was inserted, false on the UNIQUE
\* constraint error, any other error thrown.
insertIntoIndex(idx, name, pageId, ok) ==
    LET normalizedName == normalizeNameBuilder(name)
        r == SqlInsert(idx, normalizedName, pageId)
    IN IF ~ok THEN [rows |-> idx, thrown |-> TRUE, inserted |-> FALSE]
       ELSE IF r.err = "UNIQUE constraint"
       THEN [rows |-> r.rows, thrown |-> FALSE, inserted |-> FALSE]
       ELSE [rows |-> r.rows, thrown |-> FALSE, inserted |-> TRUE]

IdleBuilder == [pc |-> "idle", progress |-> NewProgress, n |-> 0,
                cursor |-> 0, totalIndexed |-> 0, completed |-> FALSE,
                pages |-> <<>>, j |-> 0, indexed |-> 0, clock |-> 0,
                loopCount |-> 0, resp |-> "none"]

\* An invocation that returns: every response has status 200.
BFinish(b, resp) ==
    [IdleBuilder EXCEPT !.pc = "done", !.resp = resp,
                        !.progress = b.progress,
                        !.totalIndexed = b.totalIndexed,
                        !.clock = b.clock]

\* Mutant: the completed check is left out.
AfterBootstrapNoCheck(b) ==
    [b EXCEPT !.pc = "loop", !.cursor = b.progress.last_cursor,
              !.totalIndexed = b.progress.total_indexed,
              !.completed = FALSE, !.n = 0]

\* Mutant: the loop begins without a cursor.
AfterBootstrapFromStart(b) ==
    IF b.progress.completed
    THEN BFinish([b EXCEPT !.totalIndexed = b.progress.total_indexed],
                 "already completed")
    ELSE [b EXCEPT !.pc = "loop", !.cursor = 0,
                   !.totalIndexed = b.progress.total_indexed,
                   !.completed = FALSE, !.n = 0]

\* indexBuilder after the bootstrap step: the completed check, then the
\* loop variables.
AfterBootstrap(b) ==
    IF b.progress.completed
    THEN BFinish([b EXCEPT !.totalIndexed = b.progress.total_indexed],
                 "already completed")
    ELSE [b EXCEPT !.pc = "loop", !.cursor = b.progress.last_cursor,
                   !.totalIndexed = b.progress.total_indexed,
                   !.completed = FALSE, !.n = 0]

\* Mutant: the rows are counted whatever the progress row holds.
AfterProgressAlwaysCount(b) == [b EXCEPT !.pc = "count"]

\* indexBuilder after getProgress: the bootstrap condition.
AfterProgress(b) ==
    IF ~b.progress.completed /\ b.progress.total_indexed = 0
    THEN [b EXCEPT !.pc = "count"]
    ELSE AfterBootstrap(b)

\* getProgress: the SELECT
BGetProgress(s, ok) ==
    /\ sc[s].pc = "idle"
    /\ sc' = [sc EXCEPT ![s] =
                IF ~ok THEN BFinish(sc[s], "error")
                ELSE IF progress = <<>> THEN [sc[s] EXCEPT !.pc = "initProgress"]
                ELSE AfterProgress([sc[s] EXCEPT !.progress = progress[1]])]
    /\ UNCHANGED <<db, titles, tags, index, progress, hs, hist, nrm, rc, rt, flagType>>

\* getProgress: the INSERT of the first run; the primary key rejects a
\* second row.
BInitProgress(s, ok) ==
    /\ sc[s].pc = "initProgress"
    /\ IF ok /\ progress = <<>> THEN
           /\ progress' = <<NewProgress>>
           /\ sc' = [sc EXCEPT ![s] = AfterProgress([sc[s] EXCEPT !.progress = NewProgress])]
       ELSE
           /\ sc' = [sc EXCEPT ![s] = BFinish(sc[s], "error")]
           /\ UNCHANGED progress
    /\ UNCHANGED <<db, titles, tags, index, hs, hist, nrm, rc, rt, flagType>>

\* getExistingIndexCount: SELECT COUNT(*) FROM name_index
getExistingIndexCount(idx) == Len(idx)

\* const existingCount = await getExistingIndexCount()
BCount(s, ok) ==
    /\ sc[s].pc = "count"
    /\ sc' = [sc EXCEPT ![s] =
                IF ~ok THEN BFinish(sc[s], "error")
                ELSE IF getExistingIndexCount(index) > 0
                THEN [sc[s] EXCEPT !.pc = "adopt", !.n = getExistingIndexCount(index)]
                ELSE AfterBootstrap(sc[s])]
    /\ UNCHANGED <<db, titles, tags, index, progress, hs, hist, nrm, rc, rt, flagType>>

\* The bootstrap updateProgress, then progress.total_indexed = existingCount
BAdopt(s, ok) ==
    /\ sc[s].pc = "adopt"
    /\ LET b == sc[s] IN
       IF ok THEN
           /\ progress' = updateProgress(progress,
                             [last_cursor |-> b.progress.last_cursor,
                              total_indexed |-> b.n,
                              completed |-> b.progress.completed])
           /\ sc' = [sc EXCEPT ![s] =
                       AfterBootstrap([b EXCEPT !.progress.total_indexed = b.n])]
       ELSE
           /\ sc' = [sc EXCEPT ![s] = BFinish(b, "error")]
           /\ UNCHANGED progress
    /\ UNCHANGED <<db, titles, tags, index, hs, hist, nrm, rc, rt, flagType>>

\* while (Date.now() - startTime < MAX_RUNTIME_MS), when the loop is
\* entered, and loopCount++.  The clock is 0 up to 85% of the budget, 1
\* above it, 2 from the whole budget on; t is the time read.
BLoop(s, t) ==
    /\ sc[s].pc = "loop"
    /\ t >= sc[s].clock
    /\ sc' = [sc EXCEPT ![s] =
                IF t < 2 THEN [sc[s] EXCEPT !.pc = "query", !.clock = t,
                                            !.loopCount = @ + 1]
                ELSE BFinish([sc[s] EXCEPT !.clock = t], "partial")]
    /\ UNCHANGED <<db, titles, tags, index, progress, hs, hist, nrm, rc, rt, flagType>>

\* The page query and what follows it up to the next await.
BQuery(s, ok) ==
    /\ sc[s].pc = "query"
    /\ LET b == sc[s]
           response == queryNotionDatabase(db, b.cursor, BATCH_SIZE)
       IN sc' = [sc EXCEPT ![s] =
                IF ~ok THEN BFinish(b, "error")
                ELSE [b EXCEPT !.pages = response.results,
                               !.cursor = response.next_cursor,
                               !.completed = ~response.has_more,
                               !.pc = IF Len(response.results) = 0
                                      THEN "markComplete" ELSE "batch",
                               !.j = IF Len(response.results) = 0 THEN 0 ELSE 1,
                               !.indexed = 0]]
    /\ UNCHANGED <<db, titles, tags, index, progress, hs, hist, nrm, rc, rt, flagType>>

\* The updateProgress of an empty page
BMarkComplete(s, ok) ==
    /\ sc[s].pc = "markComplete"
    /\ LET b == sc[s] IN
       IF ok THEN
           /\ progress' = updateProgress(progress,
                             [last_cursor |-> 0,
                              total_indexed |-> b.totalIndexed,
                              completed |-> TRUE])
           /\ sc' = [sc EXCEPT ![s] = BFinish(b, "complete (empty batch)")]
       ELSE
           /\ sc' = [sc EXCEPT ![s] = BFinish(b, "error")]
           /\ UNCHANGED progress
    /\ UNCHANGED <<db, titles, tags, index, hs, hist, nrm, rc, rt, flagType>>

\* Mutant: the running total is replaced by the count of the page.
AfterPageReset(b, indexed) ==
    IF b.j < Len(b.pages)
    THEN [b EXCEPT !.j = b.j + 1, !.indexed = indexed]
    ELSE [b EXCEPT !.pc = "persist", !.j = 0, !.indexed = 0, !.pages = <<>>,
                   !.totalIndexed = indexed]

\* Where processBatch goes after page j: the next page, or back in
\* indexBuilder with totalIndexed += indexed.
AfterPage(b, indexed) ==
    IF b.j < Len(b.pages)
    THEN [b EXCEPT !.j = b.j + 1, !.indexed = indexed]
    ELSE [b EXCEPT !.pc = "persist", !.j = 0, !.indexed = 0, !.pages = <<>>,
                   !.totalIndexed = b.totalIndexed + indexed]

\* processBatch, one page of the batch: skipped without a name, otherwise
\* inserted and counted when the row is new.
BProcessPage(s, ok) ==
    /\ sc[s].pc = "batch"
    /\ LET b == sc[s]
           page == b.pages[b.j]
       IN IF NoPlainText(titles[page]) THEN
              /\ sc' = [sc EXCEPT ![s] = AfterPage(b, b.indexed)]
              /\ UNCHANGED index
          ELSE
              LET r == insertIntoIndex(index, titles[page][1], page, ok) IN
              /\ index' = r.rows
              /\ sc' = [sc EXCEPT ![s] =
                          IF r.thrown THEN BFinish(b, "error")
                          ELSE AfterPage(b, IF r.inserted THEN b.indexed + 1 ELSE b.indexed)]
    /\ UNCHANGED <<db, titles, tags, progress, hs, hist, nrm, rc, rt, flagType>>

\* Mutant: the invocation pauses after every page.
AfterPersistAlwaysPause(b, saved, t) ==
    IF ~saved THEN BFinish(b, "error")
    ELSE IF b.completed THEN BFinish(b, "complete")
    ELSE BFinish([b EXCEPT !.clock = t], "partial")

\* indexBuilder after the updateProgress of a batch: the catch when it
\* failed, the completed return, the check of 85% of the budget and, when
\* the loop goes on, the while condition read at the same time and
\* loopCount++.
AfterPersist(b, saved, t) ==
    IF ~saved THEN BFinish(b, "error")
    ELSE IF b.completed THEN BFinish(b, "complete")
    ELSE IF t >= 1 THEN BFinish([b EXCEPT !.clock = t], "partial")
    ELSE [b EXCEPT !.pc = "query", !.clock = t, !.loopCount = @ + 1]

\* The updateProgress after a batch and what follows it up to the next
\* await; t is the time read.
BPersist(s, ok, t) ==
    /\ sc[s].pc = "persist"
    /\ t >= sc[s].clock
    /\ LET b == sc[s] IN
       IF ok THEN
           /\ progress' = updateProgress(progress,
                             [last_cursor |-> b.cursor,
                              total_indexed |-> b.totalIndexed,
                              completed |-> b.completed])
           /\ sc' = [sc EXCEPT ![s] = AfterPersist(b, TRUE, t)]
       ELSE
           /\ sc' = [sc EXCEPT ![s] = AfterPersist(b, FALSE, t)]
           /\ UNCHANGED progress
    /\ UNCHANGED <<db, titles, tags, index, hs, hist, nrm, rc, rt, flagType>>

\* The response has been sent.
BReturn(s) ==
    /\ sc[s].pc = "done"
    /\ sc' = [sc EXCEPT ![s] = IdleBuilder]
    /\ UNCHANGED <<db, titles, tags, index, progress, hs, hist, nrm, rc, rt, flagType>>

\* The host kills an invocation that is running (its time limit, a restart).
BCrash(s) ==
    /\ sc[s].pc \notin {"idle", "done"}
    /\ sc' = [sc EXCEPT ![s] = IdleBuilder]
    /\ UNCHANGED <<db, titles, tags, index, progress, hs, hist, nrm, rc, rt, flagType>>

----------------------------------------------------------------------------
(* Retry with backoff: the three copies of retryWithBackoff and the calls  *)
(* that go, or do not go, through them                                      *)

\* An error message is the sequence of its parts; message.includes(part)
includes(message, part) == \E k \in 1..Len(message) : message[k] = part

\* error.message?.includes("429") || error.message?.includes("Rate limit")
isRateLimit(message) == includes(message, "429") \/ includes(message, "Rate limit")

\* The server errors the backfill script also retries.
isServerError(message) ==
    \/ includes(message, "502")
    \/ includes(message, "500")
    \/ includes(message, "503")
    \/ includes(message, "504")
    \/ includes(message, "Internal server error")

\* The errors after which each copy waits and tries again.
retryableChecker(message) == isRateLimit(message)

retryableBuilder(message) == isRateLimit(message)

retryableBackfill(message) == isRateLimit(message) \/ isServerError(message)

\* Mutant: every error is retried.
RetryableAlways(copy, message) == TRUE

Retryable(copy, message) ==
    CASE copy = "checker" -> retryableChecker(message)
      [] copy = "builder" -> retryableBuilder(message)
      [] OTHER -> retryableBackfill(message)

\* Mutant: the wait grows by initialDelay with every attempt.
backoffDelayLinear(initialDelay, i) == initialDelay * (i + 1)

\* const delay = initialDelay * Math.pow(2, i)
backoffDelay(initialDelay, i) == initialDelay * (2 ^ i)

\* Mutant: the loop goes round once more than maxRetries allows.
MoreAttemptsOneExtra(i, maxRetries) == i <= maxRetries

\* for (let i = 0; i < maxRetries; i++): whether the loop goes round again
\* once i has been incremented.
MoreAttempts(i, maxRetries) == i < maxRetries

\* The calls to SQLite and to the Notion API.  wrapped is "all" when the
\* whole call, the check of the answer included, is inside retryWithBackoff,
\* "fetch" when only fetch() is and response.ok is checked after it, "none"
\* when the call does not go through retryWithBackoff.
CheckerSites ==
    {[name |-> "findDuplicatePages", copy |-> "checker", backend |-> "sqlite", wrapped |-> "all"],
     [name |-> "insertNameIndex", copy |-> "checker", backend |-> "sqlite", wrapped |-> "all"],
     [name |-> "fetchNotionPage", copy |-> "checker", backend |-> "notion", wrapped |-> "none"],
     [name |-> "updateNotionTags", copy |-> "checker", backend |-> "notion", wrapped |-> "none"]}

BuilderSites ==
    {[name |-> "getProgress", copy |-> "builder", backend |-> "sqlite", wrapped |-> "all"],
     [name |-> "updateProgress", copy |-> "builder", backend |-> "sqlite", wrapped |-> "all"],
     [name |-> "insertIntoIndex", copy |-> "builder", backend |-> "sqlite", wrapped |-> "all"],
     [name |-> "getExistingIndexCount", copy |-> "builder", backend |-> "sqlite", wrapped |-> "all"],
     [name |-> "queryNotionDatabase", copy |-> "builder", backend |-> "notion", wrapped |-> "none"]}

BackfillSites ==
    {[name |-> "queryNotionDatabase", copy |-> "backfill", backend |-> "notion", wrapped |-> "fetch"],
     [name |-> "fetchNotionPage", copy |-> "backfill", backend |-> "notion", wrapped |-> "fetch"],
     [name |-> "updateNotionTags", copy |-> "backfill", backend |-> "notion", wrapped |-> "all"]}

Sites == CheckerSites \cup BuilderSites \cup BackfillSites

\* What the backend does with one request: it answers (fetch resolves with
\* a status, SQLite returns rows) or the request itself fails (fetch
\* rejects, sqlite.execute throws) with a message.
NotionAnswers ==
    {[kind |-> "response", status |-> s] : s \in {"200", "429", "500", "404"}}
        \cup {[kind |-> "reject", status |-> "network error"]}

SqliteAnswers ==
    {[kind |-> "response", status |-> "200"]}
        \cup {[kind |-> "reject", status |-> m] :
                 m \in {"429", "Rate limit", "500", "SQLITE_ERROR"}}

AnswersOf(site) == IF site.backend = "notion" THEN NotionAnswers ELSE SqliteAnswers

\* throw new Error(`Failed to ...: ${response.status} ${errorText}`)
FailedMessage(site, answer) == <<"Failed to", site.name, answer.status, "errorText">>

\* The message of a request that failed by itself.
RejectMessage(answer) == <<answer.status>>

NoError == <<>>

IdleRetry == [pc |-> "idle", site |-> "none", maxRetries |-> 0,
              answers |-> <<>>, i |-> 0, calls |-> 0, waits |-> <<>>,
              lastError |-> NoError, value |-> 0, error |-> NoError]

\* The default of the parameter initialDelay.
initialDelay == 1000

RetryFrame == UNCHANGED <<db, titles, tags, index, progress, hs, sc, hist, nrm, rc, flagType>>

\* The answer of the backend to the k-th request of a call.
AnswerAt(r, k) == r.answers[IF k <= Len(r.answers) THEN k ELSE Len(r.answers)]

\* A call is made; answers is what the backend will do with the requests
\* the call sends it, one after the other.
RtCall(site, maxRetries, answers) ==
    /\ rt.pc = "idle"
    /\ rt' = [IdleRetry EXCEPT !.pc = IF site.wrapped = "none" THEN "direct" ELSE "try",
                               !.site = site, !.maxRetries = maxRetries,
                               !.answers = answers]
    /\ RetryFrame

\* A call that does not go through retryWithBackoff: one request, and
\* if (!response.ok) throw.
RtDirect ==
    /\ rt.pc = "direct"
    /\ LET a == AnswerAt(rt, 1) IN
       rt' = IF a.kind = "reject"
             THEN [rt EXCEPT !.pc = "thrown", !.calls = 1, !.error = RejectMessage(a)]
             ELSE IF a.status # "200"
             THEN [rt EXCEPT !.pc = "thrown", !.calls = 1,
                             !.error = FailedMessage(rt.site, a)]
             ELSE [rt EXCEPT !.pc = "returned", !.calls = 1, !.value = 1]
    /\ RetryFrame

\* What one invocation of the wrapped function throws, NoError when it
\* returns: fetch() alone resolves whatever the status.
Thrown(site, a) ==
    IF a.kind = "reject" THEN RejectMessage(a)
    ELSE IF site.wrapped = "all" /\ a.status # "200" THEN FailedMessage(site, a)
    ELSE NoError

\* try { return await fn() } catch (error) { lastError = error; ... }
RtTry ==
    /\ rt.pc = "try"
    /\ LET k == rt.calls + 1
           a == AnswerAt(rt, k)
           e == Thrown(rt.site, a)
       IN rt' = IF e = NoError THEN
                    \* fn returned; the caller of retryWithBackoff checks
                    \* response.ok when fn did not
                    IF a.status # "200"
                    THEN [rt EXCEPT !.pc = "thrown", !.calls = k,
                                    !.error = FailedMessage(rt.site, a)]
                    ELSE [rt EXCEPT !.pc = "returned", !.calls = k, !.value = k]
                ELSE IF Retryable(rt.site.copy, e)
                THEN [rt EXCEPT !.pc = "wait", !.calls = k, !.lastError = e]
                ELSE [rt EXCEPT !.pc = "thrown", !.calls = k, !.lastError = e,
                                !.error = e]
    /\ RetryFrame

\* await new Promise(resolve => setTimeout(resolve, delay)); continue; and
\* throw lastError when the loop is over.
RtWait ==
    /\ rt.pc = "wait"
    /\ rt' = IF MoreAttempts(rt.i + 1, rt.maxRetries)
             THEN [rt EXCEPT !.pc = "try", !.i = rt.i + 1,
                             !.waits = Append(rt.waits, backoffDelay(initialDelay, rt.i))]
             ELSE [rt EXCEPT !.pc = "thrown", !.i = rt.i + 1,
                             !.waits = Append(rt.waits, backoffDelay(initialDelay, rt.i)),
                             !.error = rt.lastError]
    /\ RetryFrame

\* The caller has the result or the error.
RtDone ==
    /\ rt.pc \in {"returned", "thrown"}
    /\ rt' = IdleRetry
    /\ RetryFrame

----------------------------------------------------------------------------
(* Reconciler: the local backfill script (backfill-local-deploy.ts)        *)

\* Mutant: only the spelling "Duplicate" counts as the marker.
hasDuplicateTagBackfillExact(existingTags) ==
    \E k \in 1..Len(existingTags) : existingTags[k] = "Duplicate"

\* In the backfill script "Duplicate Flag" is a multi_select: the sequence
\* of the names of its options.
hasDuplicateTagBackfill(existingTags) ==
    \E k \in 1..Len(existingTags) : LowerTag(existingTags[k]) = "duplicate"

\* nameMap.get(normalizedName)!.push(page), after nameMap.set(normalizedName,
\* []) when the name is new: the map keeps its keys in insertion order.
PushPage(nameMap, normalizedName, page) ==
    IF \E g \in 1..Len(nameMap) : nameMap[g].name = normalizedName
    THEN [g \in 1..Len(nameMap) |->
             IF nameMap[g].name = normalizedName
             THEN [nameMap[g] EXCEPT !.pages = Append(@, page)]
             ELSE nameMap[g]]
    ELSE Append(nameMap, [name |-> normalizedName, pages |-> <<page>>])

RECURSIVE MapFrom(_, _, _)
\* The loop of buildDuplicateMap from the k-th page on.
MapFrom(pages, k, nameMap) ==
    IF k > Len(pages) THEN nameMap
    ELSE LET page == pages[k] IN
         IF NoPlainText(titles[page]) THEN MapFrom(pages, k + 1, nameMap)
         ELSE MapFrom(pages, k + 1,
                      PushPage(nameMap, normalizeNameBackfill(titles[page][1]), page))

buildDuplicateMap(pages) == MapFrom(pages, 1, <<>>)

\* What is known of the run before this one: whether there was one, whether
\* it was dry, whether one of its calls failed, whether it came to its end
\* ("BACKFILL COMPLETE") or left by Deno.exit(1).
NoRun == [ran |-> FALSE, dryRun |-> FALSE, failed |-> FALSE, complete |-> FALSE]

IdleReconciler == [pc |-> "idle", dryRun |-> FALSE, allPages |-> <<>>,
                   cursor |-> 0, nameMap |-> <<>>, g |-> 0, j |-> 0,
                   currentTags |-> <<>>, totalDuplicates |-> 0,
                   tagged |-> 0, skipped |-> 0, failures |-> 0,
                   prev |-> NoRun]

ReconcilerFrame == UNCHANGED <<db, titles, index, progress, hs, sc, hist, nrm, rt, flagType>>

\* Mutant: groups of one page are tagged like the others.
EnterGroupAnySize(r, g) ==
    IF g > Len(r.nameMap) THEN [r EXCEPT !.pc = "done", !.g = 0, !.j = 0]
    ELSE [r EXCEPT !.pc = "fetchPage", !.g = g, !.j = 1,
                   !.totalDuplicates = @ + Len(r.nameMap[g].pages)]

RECURSIVE EnterGroup(_, _)
\* for (const [name, pages] of nameMap): groups of one page are passed
\* over, the loop over the pages of the next larger group begins.
EnterGroup(r, g) ==
    IF g > Len(r.nameMap) THEN [r EXCEPT !.pc = "done", !.g = 0, !.j = 0]
    ELSE IF Len(r.nameMap[g].pages) <= 1 THEN EnterGroup(r, g + 1)
    ELSE [r EXCEPT !.pc = "fetchPage", !.g = g, !.j = 1,
                   !.totalDuplicates = @ + Len(r.nameMap[g].pages)]

\* for (const page of pages): the next page of the group, or the next group.
AfterTagPage(r) ==
    IF r.j < Len(r.nameMap[r.g].pages)
    THEN [r EXCEPT !.pc = "fetchPage", !.j = r.j + 1, !.currentTags = <<>>]
    ELSE EnterGroup([r EXCEPT !.currentTags = <<>>], r.g + 1)

\* main() is started; DRY_RUN is a constant of the script.
RStart(dryRun) ==
    /\ rc.pc = "idle"
    /\ rc' = [IdleReconciler EXCEPT !.pc = "fetchAll", !.dryRun = dryRun,
                                    !.prev = rc.prev]
    /\ UNCHANGED tags
    /\ ReconcilerFrame

\* fetchAllPages, one turn of its do-while loop; after the last page
\* buildDuplicateMap and the beginning of tagDuplicates.  A failing query
\* ends the script in the catch of main.
RFetchBatch(ok) ==
    /\ rc.pc = "fetchAll"
    /\ LET response == queryNotionDatabase(db, rc.cursor, BATCH_SIZE)
           allPages == rc.allPages \o response.results
       IN rc' = IF ~ok THEN [rc EXCEPT !.pc = "exit", !.failures = @ + 1]
                ELSE IF response.next_cursor # 0
                THEN [rc EXCEPT !.allPages = allPages,
                                !.cursor = response.next_cursor]
                ELSE EnterGroup([rc EXCEPT !.allPages = allPages, !.cursor = 0,
                                           !.nameMap = buildDuplicateMap(allPages)], 1)
    /\ UNCHANGED tags
    /\ ReconcilerFrame

\* Mutant: a failure for one page ends the run.
CatchTagPageAbort(r) == [r EXCEPT !.pc = "exit", !.failures = @ + 1]

\* catch (error) in the loop over the pages of a group: the failure is
\* logged and the loop goes on with the next page.
CatchTagPage(r) == AfterTagPage([r EXCEPT !.failures = @ + 1])

\* currentPage.properties["Duplicate Flag"]?.multi_select || []: a property
\* of type select has no multi_select member.
multiSelectOf(value) == IF flagType = "multi_select" THEN value ELSE <<>>

\* const currentPage = await fetchNotionPage(page.id), in the try of
\* tagDuplicates.
RFetchPage(ok) ==
    /\ rc.pc = "fetchPage"
    /\ LET page == rc.nameMap[rc.g].pages[rc.j] IN
       rc' = IF ok THEN [rc EXCEPT !.pc = "updateTags",
                                   !.currentTags = multiSelectOf(tags[page])]
             ELSE CatchTagPage(rc)
    /\ UNCHANGED tags
    /\ ReconcilerFrame

\* Mutant: the update is sent in a dry run too.
updateNotionTagsNoDryRun(existingTags, DRY_RUN) ==
    IF hasDuplicateTagBackfill(existingTags)
    THEN [patch |-> FALSE, wasTagged |-> FALSE]
    ELSE [patch |-> TRUE, wasTagged |-> TRUE]

\* Mutant: the update is sent whatever the page has.
updateNotionTagsNoSkip(existingTags, DRY_RUN) ==
    IF DRY_RUN THEN [patch |-> FALSE, wasTagged |-> TRUE]
    ELSE [patch |-> TRUE, wasTagged |-> TRUE]

\* updateNotionTags of the backfill script: whether the PATCH is sent, and
\* what the function returns when nothing throws.
updateNotionTags(existingTags, DRY_RUN) ==
    IF hasDuplicateTagBackfill(existingTags)
    THEN [patch |-> FALSE, wasTagged |-> FALSE]
    ELSE IF DRY_RUN THEN [patch |-> FALSE, wasTagged |-> TRUE]
    ELSE [patch |-> TRUE, wasTagged |-> TRUE]

\* const updatedTags = [...existingTags, { name: "Duplicate" }], the value
\* the PATCH writes.
updatedTags(existingTags) == Append(existingTags, "Duplicate")

\* response.ok of the PATCH whose body is {multi_select: updatedTags}:
\* Notion answers 400 when the property is a select.
PatchAccepted(ok) == ok /\ flagType = "multi_select"

\* updateNotionTags(page.id, currentTags) and the counting of its result;
\* ok is whether the PATCH, when one is sent, succeeds.
RUpdateTags(ok) ==
    /\ rc.pc = "updateTags"
    /\ LET page == rc.nameMap[rc.g].pages[rc.j]
           call == updateNotionTags(rc.currentTags, rc.dryRun)
       IN IF call.patch /\ ~PatchAccepted(ok) THEN
              /\ rc' = CatchTagPage(rc)
              /\ UNCHANGED tags
          ELSE
              /\ tags' = IF call.patch
                         THEN [tags EXCEPT ![page] = updatedTags(rc.currentTags)]
                         ELSE tags
              /\ rc' = IF call.wasTagged
                       THEN AfterTagPage([rc EXCEPT !.tagged = @ + 1])
                       ELSE AfterTagPage([rc EXCEPT !.skipped = @ + 1])
    /\ ReconcilerFrame

\* The script is over: the summary is printed, or Deno.exit(1).
RExit ==
    /\ rc.pc \in {"done", "exit"}
    /\ rc' = [IdleReconciler EXCEPT
                 !.prev = [ran |-> TRUE, dryRun |-> rc.dryRun,
                           failed |-> rc.failures > 0,
                           complete |-> rc.pc = "done"]]
    /\ UNCHANGED tags
    /\ ReconcilerFrame

----------------------------------------------------------------------------
(* Specifications of the Real-time Detector, one delivery at a time *)

\* Titles of the records of the database: two spellings of one name, and
\* another name.
DetTitles == {<< <<"A">> >>, << <<" ", "a">> >>, << <<"b">> >>}

NrmIdle == [raw |-> <<>>, variant |-> <<>>, keys |-> <<>>]

InitDet ==
    /\ db = [i \in Ids |-> i]
    /\ titles \in [Ids -> DetTitles]
    /\ tags = [i \in Ids |-> "null"]
    /\ index = <<>>
    /\ progress = <<>>
    /\ hs = [s \in Handlers |-> IdleHandler]
    /\ sc = [s \in Builders |-> IdleBuilder]
    /\ hist = NoDelivery(TRUE)
    /\ nrm = NrmIdle
    /\ rc = IdleReconciler
    /\ rt = IdleRetry
    /\ flagType = "select"

\* The row the index builder leaves for a record it has scanned.
BuilderRow(i) == [name |-> normalizeNameBuilder(titles[i][1]), pid |-> i]

\* The index builder may have indexed the first records of the database
\* (it tags nothing) before the first delivery.
InitDetBuilt ==
    /\ db = [i \in Ids |-> i]
    /\ titles \in [Ids -> DetTitles]
    /\ tags = [i \in Ids |-> "null"]
    /\ index \in {[k \in 1..m |-> BuilderRow(k)] : m \in 0..NumIds}
    /\ progress = <<>>
    /\ hs = [s \in Handlers |-> IdleHandler]
    /\ sc = [s \in Builders |-> IdleBuilder]
    /\ hist = NoDelivery(TRUE)
    /\ nrm = NrmIdle
    /\ rc = IdleReconciler
    /\ rt = IdleRetry
    /\ flagType = "select"

\* One worker: a delivery is handled to the end before the next is taken.
\* Every call to Notion and to SQLite may fail.
NextDet ==
    \/ \E ev \in Deliveries : \E ok \in BOOLEAN : HStart("h1", ev, ok)
    \/ \E ok \in BOOLEAN : HFetchOwn("h1", ok)
    \/ \E ok \in BOOLEAN : HTagOwn("h1", ok)
    \/ \E ok \in BOOLEAN : HFetchDup("h1", ok)
    \/ \E ok \in BOOLEAN : HTagDup("h1", ok)
    \/ \E ok \in BOOLEAN : HInsert("h1", ok)
    \/ HReturn("h1")

Spec == InitDetBuilt /\ [][NextDet]_vars

\* The same, with every call to Notion and to SQLite succeeding.
NextDetOK ==
    \/ \E ev \in Deliveries : HStart("h1", ev, TRUE)
    \/ HFetchOwn("h1", TRUE)
    \/ HTagOwn("h1", TRUE)
    \/ HFetchDup("h1", TRUE)
    \/ HTagDup("h1", TRUE)
    \/ HInsert("h1", TRUE)
    \/ HReturn("h1")

SpecDetOK == InitDet /\ [][NextDetOK]_vars

----------------------------------------------------------------------------
(* Specification of the Resumable Scanner, one invocation at a time *)

\* Titles of the records scanned: no title, an empty title, two spellings of
\* one name, and another name.
ScanTitles == {<<>>, << <<>> >>, << <<"A">> >>, << <<" ", "a">> >>, << <<"b">> >>}

\* The row the webhook handler leaves for a record it has handled.
DetectorRow(i) == [name |-> normalizeName(titles[i][1]), pid |-> i]

\* The database is empty, or holds every record; the webhook handler may
\* have indexed one record before the first run.
InitScan ==
    /\ \/ db = <<>> /\ titles = [i \in Ids |-> <<>>]
       \/ db = [i \in Ids |-> i] /\ titles \in [Ids -> ScanTitles]
    /\ tags = [i \in Ids |-> "null"]
    /\ index \in {<<>>} \cup
           {<<DetectorRow(i)>> : i \in {j \in Ids : db # <<>> /\ ~NoPlainText(titles[j])}}
    /\ progress = <<>>
    /\ hs = [s \in Handlers |-> IdleHandler]
    /\ sc = [s \in Builders |-> IdleBuilder]
    /\ hist = NoDelivery(TRUE)
    /\ nrm = NrmIdle
    /\ rc = IdleReconciler
    /\ rt = IdleRetry
    /\ flagType = "select"

\* Invocations follow one another; each may pause at the time budget, fail
\* at any call, or be killed at any point.
NextScan ==
    \/ \E ok \in BOOLEAN : BGetProgress("b1", ok)
    \/ \E ok \in BOOLEAN : BInitProgress("b1", ok)
    \/ \E ok \in BOOLEAN : BCount("b1", ok)
    \/ \E ok \in BOOLEAN : BAdopt("b1", ok)
    \/ \E t \in 0..2 : BLoop("b1", t)
    \/ \E ok \in BOOLEAN : BQuery("b1", ok)
    \/ \E ok \in BOOLEAN : BMarkComplete("b1", ok)
    \/ \E ok \in BOOLEAN : BProcessPage("b1", ok)
    \/ \E ok \in BOOLEAN : \E t \in 0..2 : BPersist("b1", ok, t)
    \/ BReturn("b1")
    \/ BCrash("b1")

SpecScan == InitScan /\ [][NextScan]_vars

----------------------------------------------------------------------------
(* Properties of the Resumable Scanner *)

HasName(i) == titles[i] # <<>> /\ titles[i] # << <<>> >>

ScanCompleted == progress # <<>> /\ progress[1].completed

DbRecords == {db[k] : k \in 1..Len(db)}

\* C10: once ScanProgress.completed is true, whatever pauses, aborts and
\* kills the invocations went through, every record of the database that has
\* a name has exactly one index row, and the row holds normalize(name).
C10_CompletedScanIndexedAll ==
    ScanCompleted =>
        \A i \in DbRecords :
            HasName(i) =>
                /\ Cardinality(RowsOf(index, i)) = 1
                /\ \A r \in RowsOf(index, i) :
                       index[r].name = toLowerCase(trim(titles[i][1]))

\* A scan that completed over several invocations, one of them killed in the
\* middle of a page, another paused.
C10_Witness ==
    /\ ScanCompleted
    /\ Len(db) > BATCH_SIZE
    /\ Len(index) = Len(db)
    /\ sc["b1"].pc = "done" /\ sc["b1"].resp = "complete"
    /\ progress[1].total_indexed < Len(index)

----------------------------------------------------------------------------
(* Properties of the Real-time Detector, one delivery at a time *)

Quiet == hs["h1"].pc \in {"idle", "done"}

SharesKey(r) == \E q \in 1..Len(index) : q # r /\ index[q].name = index[r].name

\* C1: from an empty index with nothing tagged and with every call
\* succeeding, between deliveries every index row holds the canonical key of
\* its record's name, and an indexed record is tagged exactly when another
\* index row has its canonical key.
C1_TaggedIffKeyShared ==
    Quiet =>
        \A r \in 1..Len(index) :
            /\ index[r].name = toLowerCase(trim(titles[index[r].pid][1]))
            /\ Tagged(index[r].pid) <=> SharesKey(r)

\* Two spellings of one name were delivered and both records are tagged; a
\* third record with another name is indexed untagged.
C1_Witness ==
    /\ hs["h1"].pc = "idle"
    /\ Len(index) >= 3
    /\ titles[index[1].pid] # titles[index[2].pid]
    /\ index[1].name = index[2].name
    /\ Tagged(index[1].pid) /\ Tagged(index[2].pid)
    /\ ~Tagged(index[3].pid)

\* The delivery being handled is the one that was handled last.
SameAsLast ==
    /\ hs["h1"].pc \notin {"idle", "done"}
    /\ hist.pageId = hs["h1"].pageId
    /\ hist.name = hs["h1"].name

Redelivery == SameAsLast /\ hist.clean

Malformed(ev) ==
    /\ ev.method = "POST"
    /\ \/ ~ev.json
       \/ ~ev.hasId
       \/ ev.title = <<>>
       \/ ev.title = << <<>> >>

ApiErrors == {"Failed to fetch Notion page", "Failed to update Notion page"}

\* C6: every POST is answered with status 200; a failure shows only as
\* success=false in the body.
C6_PostAnswered200 ==
    \A s \in Handlers :
        (hs[s].pc = "done" /\ hs[s].post) =>
            /\ hs[s].resp.status = 200
            /\ (hs[s].resp.error # "none" \/ hs[s].resp.skipped) => ~hs[s].resp.success

C6_Witness ==
    /\ hs["h1"].pc = "done"
    /\ hs["h1"].post
    /\ hs["h1"].resp.error = "Failed to update Notion page"

\* C7: a delivery with a valid name and at least one other match leaves its
\* record in the index, whether the fetches and updates of the tagging
\* succeeded or failed.
C7_InsertedWhateverTagging ==
    (/\ hs["h1"].pc = "done"
     /\ Len(hs["h1"].others) > 0
     /\ hs["h1"].resp.error # "index insert failed")
        => hs["h1"].pageId \in IndexedIds(index)

\* C8: a failure for one matched page never ends the handling (only a
\* failure for the delivered page itself, before the loop, does); after the
\* loop every matched page that did not fail is tagged, and the handling
\* goes on to insert the delivered record.
C8_MatchedFailureDoesNotAbort ==
    LET h == hs["h1"] IN
    /\ (h.pc = "done" /\ h.resp.error \in ApiErrors) => (h.k = 0 /\ h.failed = {})
    /\ (h.failed # {} /\ h.pc \in {"insert", "done"}) =>
           \A k \in 1..Len(h.others) :
               h.others[k] \notin h.failed => Tagged(h.others[k])
    /\ (h.failed # {} /\ h.pc = "done" /\ h.resp.success) =>
           h.pageId \in IndexedIds(index)
    /\ (h.failed # {} /\ h.pc = "done") =>
           (h.resp.success \/ h.resp.error = "index insert failed")

\* The first matched page failed, the second was tagged after it, and the
\* delivered record was inserted.
C8_Witness ==
    LET h == hs["h1"] IN
    /\ h.pc = "done"
    /\ h.resp.success
    /\ Len(h.others) >= 2
    /\ h.failed = {h.others[1]}
    /\ ~Tagged(h.others[1])
    /\ Tagged(h.others[2])
    /\ Len(index) = 3
    /\ index[3].pid = h.pageId

----------------------------------------------------------------------------
(* Specification of concurrent workers *)

\* Two spellings of one name, then another name.
ConcTitle(i) ==
    CASE i = 1 -> << <<"A">> >>
      [] i = 2 -> << <<" ", "a">> >>
      [] OTHER -> << <<"b">> >>

InitConc ==
    /\ db = [i \in Ids |-> i]
    /\ titles = [i \in Ids |-> ConcTitle(i)]
    /\ tags = [i \in Ids |-> "null"]
    /\ index = <<>>
    /\ progress = <<>>
    /\ hs = [s \in Handlers |-> IdleHandler]
    /\ sc = [s \in Builders |-> IdleBuilder]
    /\ hist = NoDelivery(FALSE)
    /\ nrm = NrmIdle
    /\ rc = IdleReconciler
    /\ rt = IdleRetry
    /\ flagType = "select"

\* The deliveries Notion sends for the records as they are.
RecordDeliveries ==
    {[method |-> "POST", json |-> TRUE, hasId |-> TRUE, id |-> i,
      title |-> titles[i]] : i \in Ids}

\* Two webhook workers and an index builder run at once; their awaits
\* interleave freely, and the same record may be delivered to both workers.
\* The INSERT into name_index may fail; the other calls succeed and the
\* builder stays within its time budget; the database is not empty, so the
\* builder never sees an empty page.
NextConc ==
    \/ \E s \in Handlers : \E ev \in RecordDeliveries : HStart(s, ev, TRUE)
    \/ \E s \in Handlers : HFetchOwn(s, TRUE)
    \/ \E s \in Handlers : HTagOwn(s, TRUE)
    \/ \E s \in Handlers : HFetchDup(s, TRUE)
    \/ \E s \in Handlers : HTagDup(s, TRUE)
    \/ \E s \in Handlers : \E ok \in BOOLEAN : HInsert(s, ok)
    \/ \E s \in Handlers : HReturn(s)
    \/ BGetProgress("b1", TRUE)
    \/ BInitProgress("b1", TRUE)
    \/ BCount("b1", TRUE)
    \/ BAdopt("b1", TRUE)
    \/ BLoop("b1", 0)
    \/ BQuery("b1", TRUE)
    \/ \E ok \in BOOLEAN : BProcessPage("b1", ok)
    \/ BPersist("b1", TRUE, 0)
    \/ BReturn("b1")

SpecConc == InitConc /\ [][NextConc]_vars

----------------------------------------------------------------------------
(* Properties of the Index Store under concurrent workers *)

\* What BProcessPage reports for a page that was not inserted: the count of
\* the batch is not raised.
NotCounted(b, b2) ==
    IF b2.pc = "batch" THEN b2.indexed = b.indexed
    ELSE b2.pc = "persist" /\ b2.totalIndexed = b.totalIndexed + b.indexed

\* C2: an insert of a record that is indexed already leaves its one row and
\* reports "already present" (the handler goes on to its success response,
\* the builder does not count the page) instead of an error; an insert that
\* fails otherwise is propagated (the handler answers with the error, the
\* builder's invocation ends with it).
C2_InsertIdempotent ==
    [][/\ \A s \in Handlers : \A ok \in BOOLEAN :
            HInsert(s, ok) =>
                LET pid == hs[s].pageId IN
                /\ (ok /\ pid \in IndexedIds(index)) =>
                       (index' = index /\ hs'[s].resp.success)
                /\ ok => Cardinality(RowsOf(index', pid)) = 1
                /\ ~ok => (index' = index /\ ~hs'[s].resp.success
                           /\ hs'[s].resp.error = "index insert failed")
       /\ \A s \in Builders : \A ok \in BOOLEAN :
            (BProcessPage(s, ok) /\ HasName(sc[s].pages[sc[s].j])) =>
                LET pid == sc[s].pages[sc[s].j] IN
                /\ (ok /\ pid \in IndexedIds(index)) =>
                       (index' = index /\ NotCounted(sc[s], sc'[s]))
                /\ ok => Cardinality(RowsOf(index', pid)) = 1
                /\ ~ok => (index' = index /\ sc'[s].pc = "done"
                           /\ sc'[s].resp = "error")]_vars

\* Both workers handled the same record with the same name, both answered
\* with success, and the builder has gone past that record too.
C2_Witness ==
    /\ hs["h1"].pc = "done" /\ hs["h2"].pc = "done"
    /\ hs["h1"].pageId = hs["h2"].pageId
    /\ hs["h1"].name = hs["h2"].name
    /\ hs["h1"].resp.success /\ hs["h2"].resp.success
    /\ Cardinality(RowsOf(index, hs["h1"].pageId)) = 1
    /\ ScanCompleted
    /\ progress[1].total_indexed < Len(index)

\* C3: whatever the interleaving of the workers and the builder, no two
\* index rows have the same record id.
C3_RecordIdUnique ==
    \A i \in Ids : Cardinality(RowsOf(index, i)) <= 1

\* Both workers and the builder are about to insert the same record, which
\* is in the index already.
C3_Witness ==
    /\ hs["h1"].pc = "insert" /\ hs["h2"].pc = "insert"
    /\ hs["h1"].pageId = hs["h2"].pageId
    /\ sc["b1"].pc = "batch"
    /\ sc["b1"].pages[sc["b1"].j] = hs["h1"].pageId
    /\ Cardinality(RowsOf(index, hs["h1"].pageId)) = 1

----------------------------------------------------------------------------
(* Specification of the Normalizer on its own *)

RECURSIVE StringsUpTo(_)
\* The strings over Chars of length n or less.
StringsUpTo(n) ==
    IF n = 0 THEN {<<>>}
    ELSE StringsUpTo(n - 1) \cup
         {Append(w, c) : w \in {v \in StringsUpTo(n - 1) : Len(v) = n - 1}, c \in Chars}

OtherCase(c) ==
    CASE c = "a" -> "A"
      [] c = "A" -> "a"
      [] c = "b" -> "B"
      [] c = "B" -> "b"
      [] OTHER -> c

\* The keys the three programs compute for a raw name.
KeysOf(raw) == [checker |-> normalizeName(raw),
                builder |-> normalizeNameBuilder(raw),
                backfill |-> normalizeNameBackfill(raw)]

InitNorm ==
    /\ db = <<>>
    /\ titles = [i \in Ids |-> <<>>]
    /\ tags = [i \in Ids |-> "null"]
    /\ index = <<>>
    /\ progress = <<>>
    /\ hs = [s \in Handlers |-> IdleHandler]
    /\ sc = [s \in Builders |-> IdleBuilder]
    /\ hist = NoDelivery(FALSE)
    /\ \E raw \in StringsUpTo(MaxLen) :
           nrm = [raw |-> raw, variant |-> raw, keys |-> <<>>]
    /\ rc = IdleReconciler
    /\ rt = IdleRetry
    /\ flagType = "select"

NormFrame == UNCHANGED <<db, titles, tags, index, progress, hs, sc, hist, rc, rt, flagType>>

\* The variant gets the other case of one of its letters.
NFlipCase(i) ==
    /\ i \in 1..Len(nrm.variant)
    /\ OtherCase(nrm.variant[i]) # nrm.variant[i]
    /\ nrm' = [nrm EXCEPT !.variant[i] = OtherCase(@), !.keys = <<>>]
    /\ NormFrame

\* The variant gets one more whitespace character in front or at the end,
\* up to one on each side more than the longest raw name.
NPad(c, front) ==
    /\ IsSpace(c)
    /\ Len(nrm.variant) < MaxLen + 2
    /\ nrm' = [nrm EXCEPT !.variant = IF front THEN <<c>> \o @ ELSE Append(@, c),
                          !.keys = <<>>]
    /\ NormFrame

\* The variant loses a whitespace character in front or at the end.
NStrip(front) ==
    /\ nrm.variant # <<>>
    /\ IsSpace(IF front THEN Head(nrm.variant) ELSE nrm.variant[Len(nrm.variant)])
    /\ nrm' = [nrm EXCEPT !.variant = IF front THEN Tail(@)
                                      ELSE SubSeq(@, 1, Len(@) - 1),
                          !.keys = <<>>]
    /\ NormFrame

\* The three programs normalise the raw name and its variant.
NNormalize ==
    /\ nrm.keys = <<>>
    /\ nrm' = [nrm EXCEPT !.keys = <<KeysOf(nrm.raw), KeysOf(nrm.variant)>>]
    /\ NormFrame

NextNorm ==
    \/ \E i \in 1..(MaxLen + 2) : NFlipCase(i)
    \/ \E c \in Chars : \E front \in BOOLEAN : NPad(c, front)
    \/ \E front \in BOOLEAN : NStrip(front)
    \/ NNormalize

SpecNorm == InitNorm /\ [][NextNorm]_vars

\* C9: a raw name and any variant of it that differs only in the case of
\* letters and in leading and trailing whitespace get the same key, and the
\* webhook handler, the index builder and the backfill compute the same key
\* for the same raw name.
C9_CaseWhitespaceEquivalence ==
    nrm.keys # <<>> =>
        /\ nrm.keys[1].checker = nrm.keys[2].checker
        /\ \A k \in 1..2 :
               /\ nrm.keys[k].builder = nrm.keys[k].checker
               /\ nrm.keys[k].backfill = nrm.keys[k].checker

\* "A b" and " a B<tab>" (as "John Smith" and " john smith ") were normalised to "a b".
C9_Witness ==
    /\ nrm.keys # <<>>
    /\ nrm.raw = <<"A", " ", "b">>
    /\ nrm.variant = <<" ", "a", " ", "B", "\t">>
    /\ nrm.keys[2].checker = <<"a", " ", "b">>

----------------------------------------------------------------------------
(* The Resumable Scanner interrupted between pages *)

\* The host kills an invocation between two pages: after the progress of a
\* page was persisted, or before the first page is processed.
BInterrupt(s) ==
    /\ sc[s].pc \in {"initProgress", "count", "adopt", "loop", "query"}
    /\ BCrash(s)

\* Invocations follow one another; no call fails; an invocation pauses at
\* the time budget or is killed between pages.
NextResume ==
    \/ BGetProgress("b1", TRUE)
    \/ BInitProgress("b1", TRUE)
    \/ BCount("b1", TRUE)
    \/ BAdopt("b1", TRUE)
    \/ \E t \in 0..2 : BLoop("b1", t)
    \/ BQuery("b1", TRUE)
    \/ BMarkComplete("b1", TRUE)
    \/ BProcessPage("b1", TRUE)
    \/ \E t \in 0..2 : BPersist("b1", TRUE, t)
    \/ BReturn("b1")
    \/ BInterrupt("b1")

SpecResume == InitScan /\ [][NextResume]_vars

NamedRecords == {i \in DbRecords : HasName(i)}

----------------------------------------------------------------------------
(* Overlapping invocations of the Resumable Scanner *)

InitOverlap ==
    /\ db \in {<<>>, [i \in Ids |-> i]}
    /\ titles = [i \in Ids |-> ConcTitle(i)]
    /\ tags = [i \in Ids |-> "null"]
    /\ index = <<>>
    /\ progress = <<>>
    /\ hs = [s \in Handlers |-> IdleHandler]
    /\ sc = [s \in Builders |-> IdleBuilder]
    /\ hist = NoDelivery(FALSE)
    /\ nrm = NrmIdle
    /\ rc = IdleReconciler
    /\ rt = IdleRetry
    /\ flagType = "select"

\* Two invocations of the index builder run at once (a scheduled run and a
\* manual one); their awaits interleave freely; each may pause, meet a
\* failing INSERT in the middle of a page, or be killed at any point.
NextOverlap ==
    \/ \E s \in Builders : BGetProgress(s, TRUE)
    \/ \E s \in Builders : \E ok \in BOOLEAN : BInitProgress(s, ok)
    \/ \E s \in Builders : BCount(s, TRUE)
    \/ \E s \in Builders : BAdopt(s, TRUE)
    \/ \E s \in Builders : \E t \in 0..2 : BLoop(s, t)
    \/ \E s \in Builders : BQuery(s, TRUE)
    \/ \E s \in Builders : BMarkComplete(s, TRUE)
    \/ \E s \in Builders : \E ok \in BOOLEAN : BProcessPage(s, ok)
    \/ \E s \in Builders : \E t \in 0..2 : BPersist(s, TRUE, t)
    \/ \E s \in Builders : BReturn(s)
    \/ \E s \in Builders : BCrash(s)

SpecOverlap == InitOverlap /\ [][NextOverlap]_vars

\* C12: with invocations of the Scanner overlapping and pages processed
\* again after a kill or a failure in the middle of a page, no record has
\* two index rows, and neither the persisted totalIndexed nor the running
\* total of an invocation exceeds the number of index rows: no record is
\* counted twice.
C12_NoDuplicateRowNoDoubleCount ==
    /\ \A i \in Ids : Cardinality(RowsOf(index, i)) <= 1
    /\ progress # <<>> => progress[1].total_indexed <= Len(index)
    /\ \A s \in Builders : sc[s].totalIndexed + sc[s].indexed <= Len(index)

\* Two invocations process the same page at once: the second finds the row
\* the first has inserted, and does not count it.
C12_Witness ==
    /\ sc["b1"].pc = "batch" /\ sc["b2"].pc = "batch"
    /\ sc["b1"].pages = sc["b2"].pages
    /\ sc["b1"].j = 2 /\ sc["b1"].indexed = 1
    /\ sc["b2"].j = 2 /\ sc["b2"].indexed = 0
    /\ Len(index) = 1

----------------------------------------------------------------------------
(* The completed scan *)

\* An invocation begins: its first step, the read of the progress row.
Invoked == sc["b1"].pc = "idle" /\ sc'["b1"].pc # "idle"

\* C13 as claimed: once completed is true, an invocation reports completion
\* at once and leaves the progress row and the index as they are.
C13_LaterRunsReportCompletion ==
    [][(ScanCompleted /\ Invoked) =>
          /\ sc'["b1"].pc = "done"
          /\ sc'["b1"].resp = "already completed"
          /\ progress' = progress
          /\ index' = index]_vars

\* C13, amended: once completed is true, no step of an invocation changes
\* the progress row or the index or leads to a query of the database; an
\* invocation returns with its first step, reporting completion when its
\* read of the progress row succeeds and an error when the read fails.
C13_LaterRunsChangeNothing ==
    [][ScanCompleted =>
          /\ progress' = progress
          /\ index' = index
          /\ sc'["b1"].pc \in {"idle", "done"}
          /\ Invoked =>
                /\ sc'["b1"].pc = "done"
                /\ sc'["b1"].resp \in {"already completed", "error"}
                /\ BGetProgress("b1", TRUE) => sc'["b1"].resp = "already completed"]_vars

\* An invocation after the scan of two pages was completed has reported
\* "already completed" with the total of the scan.
C13_Witness ==
    /\ ScanCompleted
    /\ sc["b1"].pc = "done"
    /\ sc["b1"].resp = "already completed"
    /\ Len(db) > BATCH_SIZE
    /\ sc["b1"].totalIndexed = progress[1].total_indexed
    /\ Len(index) = Len(db)

\* The page an invocation holds is the last of the database: it is empty,
\* or it ends with the last record.
HoldsLastPage(b) ==
    \/ b.pages = <<>> /\ db = <<>>
    \/ b.pages # <<>> /\ b.pages[Len(b.pages)] = db[Len(db)]

\* C14: an invocation takes the scan for complete exactly when the page its
\* last query returned was the last of the database (no continuation
\* cursor); completed becomes true in the progress row only by the write of
\* such an invocation, and the completed row holds no cursor.
C14_CompletedOnlyAfterLastPage ==
    /\ [](\A s \in Builders :
            /\ sc[s].pc \in {"batch", "markComplete"} =>
                   (sc[s].completed <=> HoldsLastPage(sc[s]))
            /\ sc[s].pc \in {"batch", "markComplete", "persist"} =>
                   (sc[s].completed <=> sc[s].cursor = 0))
    /\ [](ScanCompleted => progress[1].last_cursor = 0)
    /\ [][(~ScanCompleted /\ ScanCompleted') =>
              \E s \in Builders :
                  /\ sc[s].pc \in {"markComplete", "persist"}
                  /\ sc[s].completed
                  /\ sc'[s].pc = "done"
                  /\ sc'[s].resp \in {"complete", "complete (empty batch)"}]_vars

\* One invocation scanned both pages of the database and marked the scan
\* complete after the second, which had no continuation.
C14_Witness ==
    /\ ScanCompleted
    /\ sc["b1"].pc = "done" /\ sc["b1"].resp = "complete"
    /\ Len(db) > BATCH_SIZE
    /\ sc["b1"].progress.last_cursor = 0
    /\ progress[1].last_cursor = 0

\* C15: with invocations following one another, whatever fails and wherever
\* an invocation is killed, no write to the progress row (the adoption of
\* the row count, the persist after a page, the persist of completion)
\* lowers totalIndexed.
C15_TotalNeverDecreases ==
    [][(progress # <<>> /\ progress' # <<>>) =>
           progress'[1].total_indexed >= progress[1].total_indexed]_vars

\* An invocation that began with a total persisted by an earlier one has
\* completed the scan with a larger total.
C15_Witness ==
    /\ ScanCompleted
    /\ sc["b1"].pc = "done" /\ sc["b1"].resp = "complete"
    /\ sc["b1"].progress.total_indexed > 0
    /\ progress[1].total_indexed > sc["b1"].progress.total_indexed

----------------------------------------------------------------------------
(* The Resumable Scanner invoked again and again *)

\* Invocations follow one another; no call fails and no invocation is
\* killed; the time an invocation reads is free.
NextLive ==
    \/ BGetProgress("b1", TRUE)
    \/ BInitProgress("b1", TRUE)
    \/ BCount("b1", TRUE)
    \/ BAdopt("b1", TRUE)
    \/ \E t \in 0..2 : BLoop("b1", t)
    \/ BQuery("b1", TRUE)
    \/ BMarkComplete("b1", TRUE)
    \/ BProcessPage("b1", TRUE)
    \/ \E t \in 0..2 : BPersist("b1", TRUE, t)
    \/ BReturn("b1")

\* The scheduler keeps invoking the builder and every await returns.
SpecLive == InitScan /\ [][NextLive]_vars /\ WF_vars(NextLive)

\* The invocation returns "partial" with this step.
Pauses == sc["b1"].pc # "done" /\ sc'["b1"].pc = "done" /\ sc'["b1"].resp = "partial"

\* The progress row holds another cursor than the invocation read at its
\* start.
CursorAdvanced == progress'[1].last_cursor # sc["b1"].progress.last_cursor

\* C16 as claimed: invoked again and again with no call failing, the scan is
\* completed at last, and no invocation pauses without having advanced the
\* persisted cursor.
C16_InvokedUntilComplete ==
    /\ <>ScanCompleted
    /\ [][Pauses => CursorAdvanced]_vars

\* C16, amended: an invocation pauses without having advanced the persisted
\* cursor only when the time budget is used up at its first check of the
\* clock, before any query; and if again and again an invocation gets to a
\* query, the scan is completed at last.
C16_QueriedUntilComplete ==
    /\ ([]<>(sc["b1"].pc = "query")) => <>ScanCompleted
    /\ [][Pauses =>
            \/ CursorAdvanced
            \/ /\ sc["b1"].pc = "loop"
               /\ sc["b1"].cursor = sc["b1"].progress.last_cursor
               /\ sc["b1"].clock = 0]_vars

\* An invocation has paused after it persisted the cursor of the second
\* page.
C16_Witness ==
    /\ sc["b1"].pc = "done" /\ sc["b1"].resp = "partial"
    /\ sc["b1"].progress.last_cursor = 0
    /\ progress[1].last_cursor = BATCH_SIZE + 1
    /\ ~ScanCompleted

----------------------------------------------------------------------------
(* Specification of the calls and their retries *)

InitRetry ==
    /\ db = <<>>
    /\ titles = [i \in Ids |-> <<>>]
    /\ tags = [i \in Ids |-> "null"]
    /\ index = <<>>
    /\ progress = <<>>
    /\ hs = [s \in Handlers |-> IdleHandler]
    /\ sc = [s \in Builders |-> IdleBuilder]
    /\ hist = NoDelivery(FALSE)
    /\ nrm = NrmIdle
    /\ rc = IdleReconciler
    /\ rt = IdleRetry
    /\ flagType = "select"

\* Calls are made one after the other, at every site, with every sequence
\* of answers of the backend.
NextRetry ==
    \/ \E site \in Sites : \E maxRetries \in 1..MaxRetries :
         \E answers \in [1..maxRetries -> AnswersOf(site)] :
             RtCall(site, maxRetries, answers)
    \/ RtDirect
    \/ RtTry
    \/ RtWait
    \/ RtDone

SpecRetry == InitRetry /\ [][NextRetry]_vars

\* What the invocation of the wrapped function that is about to be made
\* throws.
NextThrown == Thrown(rt.site, AnswerAt(rt, rt.calls + 1))

\* The failure is handed to the caller with this step: no wait, no other
\* invocation.
PropagatedAtOnce ==
    /\ rt'.pc = "thrown"
    /\ rt'.error = NextThrown
    /\ rt'.calls = rt.calls + 1
    /\ rt'.waits = rt.waits

\* C17 as claimed: in every copy, a failure of the wrapped function that
\* carries no rate-limit signal is propagated at once.
C17_OnlyRateLimitRetried ==
    [][(rt.pc = "try" /\ NextThrown # NoError /\ ~isRateLimit(NextThrown))
          => PropagatedAtOnce]_vars

\* C17, amended: in the copies of the webhook handler and of the index
\* builder a failure without a rate-limit signal is propagated at once; in
\* the copy of the backfill script so is a failure that carries neither a
\* rate-limit signal nor a server-error one (500, 502, 503, 504, "Internal
\* server error"), while a server error is waited out and tried again.
C17_NotRetryablePropagatedAtOnce ==
    /\ [][(/\ rt.pc = "try"
           /\ NextThrown # NoError
           /\ ~isRateLimit(NextThrown)
           /\ (rt.site.copy = "backfill" => ~isServerError(NextThrown)))
              => PropagatedAtOnce]_vars
    /\ [][(/\ rt.pc = "try"
           /\ rt.site.copy = "backfill"
           /\ NextThrown # NoError
           /\ isServerError(NextThrown))
              => (rt'.pc = "wait" /\ rt'.error = NoError)]_vars

\* findDuplicatePages met a rate limit, waited, and then an error of SQLite
\* that was thrown to the handler without another wait.
C17_Witness ==
    /\ rt.pc = "thrown"
    /\ rt.site.name = "findDuplicatePages"
    /\ rt.maxRetries = 3
    /\ rt.calls = 2
    /\ rt.waits = <<1000>>
    /\ rt.error = <<"SQLITE_ERROR">>

\* Whether the k-th invocation of the wrapped function fails with a
\* rate-limit signal.
RateLimited(k) == isRateLimit(Thrown(rt.site, rt.answers[k]))

\* C18: retryWithBackoff invokes the wrapped function at most maxRetries
\* times; what it returns is the result of the first invocation that did
\* not throw; and when every invocation fails with a rate-limit signal it
\* stops after maxRetries of them and throws the last failure.
C18_AtMostMaxAttempts ==
    (rt.pc # "idle" /\ rt.site.wrapped # "none") =>
        /\ rt.calls <= rt.maxRetries
        /\ rt.pc = "returned" =>
               /\ rt.value = rt.calls
               /\ Thrown(rt.site, rt.answers[rt.value]) = NoError
               /\ \A k \in 1..(rt.value - 1) :
                      Thrown(rt.site, rt.answers[k]) # NoError
        /\ (rt.pc = "thrown" /\ \A k \in 1..rt.maxRetries : RateLimited(k)) =>
               /\ rt.calls = rt.maxRetries
               /\ rt.error = Thrown(rt.site, rt.answers[rt.maxRetries])

\* Three invocations, each answered with a rate limit: the error of the
\* third is thrown after the waits of 1, 2 and 4 seconds.
C18_Witness ==
    /\ rt.pc = "thrown"
    /\ rt.site.name = "insertIntoIndex"
    /\ rt.maxRetries = 3
    /\ rt.calls = 3
    /\ rt.answers[1].status = "429"
    /\ rt.answers[3].status = "Rate limit"
    /\ rt.error = <<"Rate limit">>
    /\ rt.waits = <<1000, 2000, 4000>>

\* C19: a call to the Notion API that is answered 429 and then, were it
\* sent again, 200, returns to its caller without an error.
C19_RateLimitResponseRetried ==
    (/\ rt.pc \in {"returned", "thrown"}
     /\ rt.site.backend = "notion"
     /\ rt.maxRetries >= 2
     /\ rt.answers[1] = [kind |-> "response", status |-> "429"]
     /\ rt.answers[2] = [kind |-> "response", status |-> "200"])
        => rt.pc = "returned"

----------------------------------------------------------------------------
(* Specification of the Reconciler *)

\* Titles of the records: no title, two spellings of one name, another name.
BackfillTitles == {<<>>, << <<"A">> >>, << <<" ", "a">> >>, << <<"b">> >>}

\* Values of "Duplicate Flag" before a run: no option, another option, the
\* duplicate option in some spelling.
BackfillTags == {<<>>, <<"Other">>, <<"duplicate">>}

InitBackfill ==
    /\ db = [i \in Ids |-> i]
    /\ titles \in [Ids -> BackfillTitles]
    /\ tags \in [Ids -> BackfillTags]
    /\ index = <<>>
    /\ progress = <<>>
    /\ hs = [s \in Handlers |-> IdleHandler]
    /\ sc = [s \in Builders |-> IdleBuilder]
    /\ hist = NoDelivery(FALSE)
    /\ nrm = NrmIdle
    /\ rc = IdleReconciler
    /\ rt = IdleRetry
    /\ flagType = "multi_select"

\* The script is run again and again, dry or not; every call to the Notion
\* API may fail.
NextBackfill ==
    \/ \E dryRun \in BOOLEAN : RStart(dryRun)
    \/ \E ok \in BOOLEAN : RFetchBatch(ok)
    \/ \E ok \in BOOLEAN : RFetchPage(ok)
    \/ \E ok \in BOOLEAN : RUpdateTags(ok)
    \/ RExit

SpecBackfill == InitBackfill /\ [][NextBackfill]_vars

\* The records that share the canonical key of record i, i included.
GroupOf(i) ==
    {j \in DbRecords :
        /\ HasName(j)
        /\ toLowerCase(trim(titles[j][1])) = toLowerCase(trim(titles[i][1]))}

\* C20: when a run that is not dry ends without a failed call, every record
\* that shares its canonical key with another record has the duplicate
\* option; and a run changes the options of a record only by adding
\* "Duplicate" to a record of such a group that did not have it.
C20_GroupsTaggedSinglesLeft ==
    /\ []((rc.pc = "done" /\ ~rc.dryRun /\ rc.failures = 0) =>
            \A i \in DbRecords :
                (HasName(i) /\ Cardinality(GroupOf(i)) >= 2) =>
                    hasDuplicateTagBackfill(tags[i]))
    /\ [][\A i \in Ids :
            tags'[i] # tags[i] =>
                /\ HasName(i)
                /\ Cardinality(GroupOf(i)) >= 2
                /\ ~rc.dryRun
                /\ ~hasDuplicateTagBackfill(tags[i])
                /\ tags'[i] = Append(tags[i], "Duplicate")]_vars

\* A run has tagged one record of a pair, found the other tagged already,
\* and left alone a record whose name no other record has.
C20_Witness ==
    /\ rc.pc = "done" /\ ~rc.dryRun /\ rc.failures = 0
    /\ rc.tagged = 1 /\ rc.skipped = 1 /\ rc.totalDuplicates = 2
    /\ \E i \in DbRecords :
           /\ HasName(i)
           /\ Cardinality(GroupOf(i)) = 1
           /\ tags[i] = <<"Other">>
    /\ \E i \in DbRecords : tags[i] = <<"Other", "Duplicate">>

----------------------------------------------------------------------------
(* The incremental Reconciler (backfill-incremental.py): fetch with a saved
   snapshot, removal of the marker from false positives, tagging.  Its
   tagging phase is the loop of tagDuplicates. *)

\* backfill-progress.json: the phase, the last cursor, the duplicate map.
NoSnapshot == [phase |-> "fetch", cursor |-> 0, nameMap |-> <<>>]

\* The run state of the incremental Reconciler: that of the backfill script,
\* the position of the cleanup, the number of markers removed, and the
\* snapshot on disk.
IdleIncremental(saved) ==
    [x \in DOMAIN IdleReconciler \cup {"k", "removed", "saved"} |->
        IF x = "saved" THEN saved
        ELSE IF x \in {"k", "removed"} THEN 0
        ELSE IdleReconciler[x]]

\* The options of a page without the duplicate option.
removeDuplicateTag(existingTags) ==
    SelectSeq(existingTags, LAMBDA t : LowerTag(t) # "duplicate")

\* Mutant: every page of the map counts as alone in its group.
GroupSizeInAlone(nameMap, page) ==
    IF \E g \in 1..Len(nameMap) :
           \E j \in 1..Len(nameMap[g].pages) : nameMap[g].pages[j] = page
    THEN 1 ELSE 0

\* The number of pages of the group of the map that holds the page; 0 when
\* no group holds it.
GroupSizeIn(nameMap, page) ==
    IF \E g \in 1..Len(nameMap) :
           \E j \in 1..Len(nameMap[g].pages) : nameMap[g].pages[j] = page
    THEN LET g == CHOOSE g \in 1..Len(nameMap) :
                      \E j \in 1..Len(nameMap[g].pages) : nameMap[g].pages[j] = page
         IN Len(nameMap[g].pages)
    ELSE 0

\* Mutant: the script begins at the first page whatever the snapshot holds.
IncStartFresh(dryRun) ==
    /\ rc.pc = "idle"
    /\ rc' = [IdleIncremental(rc.saved) EXCEPT
                 !.pc = "fetch", !.dryRun = dryRun, !.k = 1]
    /\ UNCHANGED tags
    /\ ReconcilerFrame

\* The script is started: it goes on from the snapshot, in the phase the
\* snapshot names.
IncStart(dryRun) ==
    /\ rc.pc = "idle"
    /\ LET r == [IdleIncremental(rc.saved) EXCEPT
                    !.dryRun = dryRun, !.cursor = rc.saved.cursor,
                    !.nameMap = rc.saved.nameMap, !.k = 1]
       IN rc' = IF rc.saved.phase = "tag" THEN EnterGroup(r, 1)
                ELSE [r EXCEPT !.pc = rc.saved.phase]
    /\ UNCHANGED tags
    /\ ReconcilerFrame

\* Phase 1, one batch: the query at the cursor, the pages added to the map.
IncFetch ==
    /\ rc.pc = "fetch"
    /\ LET response == queryNotionDatabase(db, rc.cursor, BATCH_SIZE) IN
       rc' = [rc EXCEPT !.pc = "save",
                        !.allPages = @ \o response.results,
                        !.cursor = response.next_cursor,
                        !.nameMap = MapFrom(response.results, 1, rc.nameMap)]
    /\ UNCHANGED tags
    /\ ReconcilerFrame

\* Phase 1, after each batch: the cursor and the map are saved; after the
\* last batch the snapshot names the cleanup.
IncSave ==
    /\ rc.pc = "save"
    /\ LET phase == IF rc.cursor = 0 THEN "clean" ELSE "fetch" IN
       rc' = [rc EXCEPT !.pc = phase, !.k = 1,
                        !.saved = [phase |-> phase, cursor |-> rc.cursor,
                                   nameMap |-> rc.nameMap]]
    /\ UNCHANGED tags
    /\ ReconcilerFrame

\* Phase 2, one record: a tagged record whose group has exactly one member
\* loses the marker; after the last record the snapshot names the tagging.
IncClean ==
    /\ rc.pc = "clean"
    /\ IF rc.k > Len(db) THEN
           /\ rc' = EnterGroup([rc EXCEPT !.saved.phase = "tag"], 1)
           /\ UNCHANGED tags
       ELSE LET page == db[rc.k]
                falsePositive == /\ hasDuplicateTagBackfill(tags[page])
                                 /\ GroupSizeIn(rc.nameMap, page) = 1
            IN /\ tags' = IF falsePositive
                          THEN [tags EXCEPT ![page] = removeDuplicateTag(@)]
                          ELSE tags
               /\ rc' = [rc EXCEPT !.k = @ + 1,
                                   !.removed = IF falsePositive THEN @ + 1 ELSE @]
    /\ ReconcilerFrame

\* The script ends after the tagging: the snapshot is of no further use.
IncExit ==
    /\ rc.pc = "done"
    /\ rc' = IdleIncremental(NoSnapshot)
    /\ UNCHANGED tags
    /\ ReconcilerFrame

\* The script crashes, or a call fails and ends it: what is in memory is
\* lost, the snapshot stays.
IncCrash ==
    /\ rc.pc \notin {"idle", "done"}
    /\ rc' = IdleIncremental(rc.saved)
    /\ UNCHANGED tags
    /\ ReconcilerFrame

InitIncremental ==
    /\ db = [i \in Ids |-> i]
    /\ titles \in [Ids -> BackfillTitles]
    /\ tags \in [Ids -> BackfillTags]
    /\ index = <<>>
    /\ progress = <<>>
    /\ hs = [s \in Handlers |-> IdleHandler]
    /\ sc = [s \in Builders |-> IdleBuilder]
    /\ hist = NoDelivery(FALSE)
    /\ nrm = NrmIdle
    /\ rc = IdleIncremental(NoSnapshot)
    /\ rt = IdleRetry
    /\ flagType = "multi_select"

NextIncremental ==
    \/ \E dryRun \in BOOLEAN : IncStart(dryRun)
    \/ IncFetch
    \/ IncSave
    \/ IncClean
    \/ \E ok \in BOOLEAN : RFetchPage(ok)
    \/ \E ok \in BOOLEAN : RUpdateTags(ok)
    \/ IncExit
    \/ IncCrash

SpecIncremental == InitIncremental /\ [][NextIncremental]_vars

TrueDuplicates == {i \in DbRecords : HasName(i) /\ Cardinality(GroupOf(i)) >= 2}

\* C22: in a dry run no step changes the options of a record, and when the
\* run ends without a failed call it has counted, as tagged, every record of
\* a group of two or more that does not carry the duplicate option.
C22_DryRunChangesNothing ==
    /\ [][rc.dryRun => tags' = tags]_vars
    /\ []((rc.pc = "done" /\ rc.dryRun /\ rc.failures = 0) =>
            /\ rc.tagged = Cardinality({i \in TrueDuplicates :
                                           ~hasDuplicateTagBackfill(tags[i])})
            /\ rc.skipped = Cardinality({i \in TrueDuplicates :
                                            hasDuplicateTagBackfill(tags[i])}))

\* A dry run is over: it has counted two records to tag, and they are as
\* they were.
C22_Witness ==
    /\ rc.pc = "done" /\ rc.dryRun /\ rc.failures = 0
    /\ rc.tagged = 2
    /\ Cardinality({i \in TrueDuplicates : ~hasDuplicateTagBackfill(tags[i])}) = 2

\* The run in progress follows a run of the same kind that came to its end.
SecondRun ==
    /\ rc.pc # "idle"
    /\ rc.prev.ran /\ rc.prev.complete
    /\ rc.prev.dryRun = rc.dryRun

PagesOf(nameMap) ==
    UNION {{nameMap[g].pages[j] : j \in 1..Len(nameMap[g].pages)} :
              g \in 1..Len(nameMap)}

----------------------------------------------------------------------------
(* The webhook handler and the index builder over records of which some
   carry the marker already *)

\* Values of "Duplicate Flag" before the first delivery: none, the
\* duplicate option in another spelling, another option.
MixedTags == {"null", "DUPLICATE", "Other"}

InitMixed ==
    /\ db = [i \in Ids |-> i]
    /\ titles = [i \in Ids |-> ConcTitle(i)]
    /\ tags \in [Ids -> MixedTags]
    /\ index = <<>>
    /\ progress = <<>>
    /\ hs = [s \in Handlers |-> IdleHandler]
    /\ sc = [s \in Builders |-> IdleBuilder]
    /\ hist = NoDelivery(FALSE)
    /\ nrm = NrmIdle
    /\ rc = IdleReconciler
    /\ rt = IdleRetry
    /\ flagType = "select"

\* A webhook worker and an index builder run at once and interleave freely;
\* the GET and the PATCH of a page and the INSERT may fail; the builder may
\* pause; the database is not empty, so the builder never sees an empty
\* page.
NextMixed ==
    \/ \E ev \in RecordDeliveries : HStart("h1", ev, TRUE)
    \/ \E ok \in BOOLEAN : HFetchOwn("h1", ok)
    \/ \E ok \in BOOLEAN : HTagOwn("h1", ok)
    \/ \E ok \in BOOLEAN : HFetchDup("h1", ok)
    \/ \E ok \in BOOLEAN : HTagDup("h1", ok)
    \/ \E ok \in BOOLEAN : HInsert("h1", ok)
    \/ HReturn("h1")
    \/ BGetProgress("b1", TRUE)
    \/ BInitProgress("b1", TRUE)
    \/ BCount("b1", TRUE)
    \/ BAdopt("b1", TRUE)
    \/ \E t \in 0..2 : BLoop("b1", t)
    \/ BQuery("b1", TRUE)
    \/ \E ok \in BOOLEAN : BProcessPage("b1", ok)
    \/ \E t \in 0..2 : BPersist("b1", TRUE, t)
    \/ BReturn("b1")

SpecMixed == InitMixed /\ [][NextMixed]_vars

\* C25: whatever the interleaving of the webhook workers and the index
\* builder, a record that carries the marker carries it after every step;
\* a step changes "Duplicate Flag" only by setting it to Duplicate; and a
\* step of the index builder changes no record.
C25_MarkerNeverLost ==
    /\ [][\A i \in Ids :
            /\ Tagged(i) => Tagged(i)'
            /\ tags'[i] # tags[i] => tags'[i] = "Duplicate"]_vars
    /\ [][sc' # sc => (tags' = tags /\ titles' = titles /\ db' = db)]_vars

\* A worker has tagged a record next to one that carried the marker in
\* another spelling and still does, while the builder has indexed a page.
C25_Witness ==
    /\ \E i, j \in Ids :
           /\ tags[i] = "DUPLICATE"
           /\ tags[j] = "Duplicate"
           /\ \E r \in RowsOf(index, i) : TRUE
    /\ progress # <<>> /\ progress[1].total_indexed > 0

----------------------------------------------------------------------------
(* The two programs that tag, each over a database whose "Duplicate Flag" is
   of the type the program writes *)

InitTagging ==
    /\ db = [i \in Ids |-> i]
    /\ index = <<>>
    /\ progress = <<>>
    /\ hs = [s \in Handlers |-> IdleHandler]
    /\ sc = [s \in Builders |-> IdleBuilder]
    /\ hist = NoDelivery(FALSE)
    /\ nrm = NrmIdle
    /\ rc = IdleReconciler
    /\ rt = IdleRetry
    /\ \/ /\ flagType = "select"
          /\ titles = [i \in Ids |-> ConcTitle(i)]
          /\ tags \in [Ids -> MixedTags]
       \/ /\ flagType = "multi_select"
          /\ titles \in [Ids -> BackfillTitles]
          /\ tags \in [Ids -> BackfillTags]

\* The webhook handler over a select, one delivery at a time, or the
\* backfill script over a multi_select; every call to Notion may fail.
NextTagging ==
    \/ /\ flagType = "select"
       /\ \/ \E ev \in RecordDeliveries : HStart("h1", ev, TRUE)
          \/ \E ok \in BOOLEAN : HFetchOwn("h1", ok)
          \/ \E ok \in BOOLEAN : HTagOwn("h1", ok)
          \/ \E ok \in BOOLEAN : HFetchDup("h1", ok)
          \/ \E ok \in BOOLEAN : HTagDup("h1", ok)
          \/ HInsert("h1", TRUE)
          \/ HReturn("h1")
    \/ /\ flagType = "multi_select"
       /\ NextBackfill

SpecTagging == InitTagging /\ [][NextTagging]_vars

\* The value carries the duplicate option, in whatever case: a select is
\* one option or none, a multi_select a list of options.
CarriesMarker(value) ==
    IF flagType = "select" THEN value \in {"Duplicate", "DUPLICATE", "duplicate"}
    ELSE \E k \in 1..Len(value) : value[k] \in {"Duplicate", "DUPLICATE", "duplicate"}

\* The number of duplicate options a multi_select holds.
MarkerCount(value) ==
    Cardinality({k \in 1..Len(value) :
                    value[k] \in {"Duplicate", "DUPLICATE", "duplicate"}})

\* C26: when the value fetched for a record carries the marker, in whatever
\* case, the tagging step of the webhook handler and that of the backfill
\* script change no value of "Duplicate Flag" (no PATCH is sent) and the
\* script does not count the record as tagged; and no multi_select ever
\* holds the duplicate option twice.
C26_TaggedRecordIsLeftAlone ==
    /\ [][\A s \in Handlers :
            (/\ hs[s].pc \in {"tagOwn", "tagDup"}
             /\ CarriesMarker(hs[s].tag)
             /\ hs'[s] # hs[s]) => tags' = tags]_vars
    /\ [][(/\ rc.pc = "updateTags"
           /\ CarriesMarker(rc.currentTags)
           /\ rc' # rc) =>
              (tags' = tags /\ rc'.tagged = rc.tagged
                            /\ rc'.failures = rc.failures)]_vars
    /\ [](flagType = "multi_select" => \A i \in Ids : MarkerCount(tags[i]) <= 1)

\* The backfill script has skipped a record of a pair that carried the
\* option in lower case and still carries just that.
C26_Witness ==
    /\ flagType = "multi_select"
    /\ rc.pc = "done" /\ ~rc.dryRun
    /\ rc.skipped = 1 /\ rc.tagged = 1
    /\ \E i \in TrueDuplicates : tags[i] = <<"duplicate">>

\* Two workers handle two different records whose names have the same
\* canonical key, and the lookup of each has returned no other page: each
\* is about to insert, or has answered.
BothFoundNoMatch ==
    LET h1 == hs["h1"]
        h2 == hs["h2"]
    IN /\ h1.pc \in {"insert", "done"} /\ h2.pc \in {"insert", "done"}
       /\ h1.post /\ h2.post
       /\ h1.pageId # 0 /\ h2.pageId # 0
       /\ h1.pageId # h2.pageId
       /\ h1.others = <<>> /\ h2.others = <<>>
       /\ h1.name # <<>> /\ normalizeName(h1.name) = normalizeName(h2.name)

\* Both have answered "unique": success, no duplicate.
BothAnsweredUnique ==
    /\ BothFoundNoMatch
    /\ hs["h1"].pc = "done" /\ hs["h2"].pc = "done"
    /\ hs["h1"].resp = SuccessResp(FALSE) /\ hs["h2"].resp = SuccessResp(FALSE)

\* C27: two concurrent workers can both find no match for two different
\* records that share a key (the witness); from then on, until one of them
\* takes another delivery, no step tags a record, and once both have
\* answered "unique" both records are in the index, once each and under
\* the same key.
C27_RaceLeavesPairUntagged ==
    /\ [][BothFoundNoMatch => tags' = tags]_vars
    /\ [](BothAnsweredUnique =>
            \A h \in {hs["h1"], hs["h2"]} :
                /\ Cardinality(RowsOf(index, h.pageId)) = 1
                /\ \A r \in RowsOf(index, h.pageId) :
                       index[r].name = normalizeName(h.name))

\* Both workers have answered "unique" for records 1 and 2, whose names
\* differ only in case and spacing; both are indexed, neither is tagged.
C27_Witness ==
    /\ BothAnsweredUnique
    /\ {hs["h1"].pageId, hs["h2"].pageId} = {1, 2}
    /\ ~Tagged(1) /\ ~Tagged(2)
    /\ RowsOf(index, 1) # {} /\ RowsOf(index, 2) # {}

\* In the tagging loop at page j of group g, the run r2 is at the page that
\* follows: the next page of the group, or the first page of the next group
\* of two or more pages, or past the loop when there is none.
AtNextMember(r, r2) ==
    LET size == Len(r.nameMap[r.g].pages)
        later == {g \in (r.g + 1)..Len(r.nameMap) : Len(r.nameMap[g].pages) >= 2}
    IN IF r.j < size
       THEN r2.pc = "fetchPage" /\ r2.g = r.g /\ r2.j = r.j + 1
       ELSE IF later # {}
       THEN /\ r2.pc = "fetchPage" /\ r2.j = 1
            /\ r2.g \in later /\ \A g \in later : r2.g <= g
       ELSE r2.pc = "done"

\* C28: in the tagging loop a step, failed or not, either hands the fetched
\* options of the page to updateNotionTags or moves on to the page that
\* follows, never out of the loop; so a run that fetched all pages comes to
\* its end having tagged, skipped or failed on every member of every group
\* of two or more.
C28_FailureDoesNotAbortTagging ==
    /\ [][(rc.pc \in {"fetchPage", "updateTags"}) =>
            \/ /\ rc.pc = "fetchPage" /\ rc'.pc = "updateTags"
               /\ rc'.g = rc.g /\ rc'.j = rc.j /\ rc'.failures = rc.failures
            \/ AtNextMember(rc, rc')]_vars
    /\ [](rc.pc = "done" =>
            /\ rc.totalDuplicates = Cardinality(TrueDuplicates)
            /\ rc.tagged + rc.skipped + rc.failures = rc.totalDuplicates)

\* A run is over in which the call for the first member of a pair failed
\* and the second member was tagged all the same.
C28_Witness ==
    /\ rc.pc = "done" /\ ~rc.dryRun
    /\ rc.failures = 1 /\ rc.tagged = 1
    /\ \E i, j \in TrueDuplicates :
           /\ i < j /\ j \in GroupOf(i)
           /\ tags[i] = <<>>
           /\ tags[j] = <<"Duplicate">>

----------------------------------------------------------------------------
(* The first query of an invocation, and its pauses *)

\* The record a query with start cursor c returns first.
FirstOf(c) == IF c = 0 THEN db[1] ELSE db[c]

\* C29: the first page query of an invocation (loopCount = 1) is sent with
\* the cursor of the progress row the invocation read, which is the
\* persisted one: its answer begins at the record the cursor points to, and
\* at the first record of the database only when the cursor is null.
C29_FirstQueryFromPersistedCursor ==
    /\ []((sc["b1"].pc = "query" /\ sc["b1"].loopCount = 1) =>
            /\ progress # <<>> /\ ~progress[1].completed
            /\ sc["b1"].cursor = progress[1].last_cursor
            /\ sc["b1"].cursor = sc["b1"].progress.last_cursor)
    /\ [][(sc["b1"].pc = "query" /\ sc["b1"].loopCount = 1
                                /\ sc'["b1"].pc = "batch") =>
            sc'["b1"].pages[1] = FirstOf(progress[1].last_cursor)]_vars

\* An invocation that read the cursor of the second page got, as its first
\* page, the records from that cursor on.
C29_Witness ==
    /\ sc["b1"].pc = "batch" /\ sc["b1"].loopCount = 1
    /\ sc["b1"].progress.last_cursor = BATCH_SIZE + 1
    /\ sc["b1"].pages[1] = db[BATCH_SIZE + 1]

\* The invocation returns "partial" in this step.
ReturnsPaused ==
    /\ sc["b1"].pc # "done"
    /\ sc'["b1"].pc = "done" /\ sc'["b1"].resp = "partial"

----------------------------------------------------------------------------
(* The bootstrap step of an invocation *)

\* The invocation is before its loop: getProgress and the bootstrap step.
BeforeLoop == sc["b1"].pc \in {"idle", "initProgress", "count", "adopt"}

\* C31: before its loop an invocation writes the progress row only to
\* create it (getProgress, first run) or, when the row holds total_indexed
\* = 0 and completed = false and the index has n > 0 rows, to set
\* total_indexed to n with the cursor and completed as they were; and when
\* the first query of an invocation is sent, the row does not hold 0 next
\* to an index that has rows.
C31_BootstrapAdoptsExistingCount ==
    /\ [][(BeforeLoop /\ progress' # progress) =>
            \/ /\ sc["b1"].pc = "initProgress"
               /\ progress = <<>> /\ progress' = <<NewProgress>>
            \/ /\ sc["b1"].pc = "adopt"
               /\ progress[1].total_indexed = 0
               /\ ~progress[1].completed
               /\ Len(index) > 0
               /\ progress' = <<[progress[1] EXCEPT !.total_indexed = Len(index)]>>]_vars
    /\ []((sc["b1"].pc = "query" /\ sc["b1"].loopCount = 1) =>
            (progress[1].total_indexed = 0 => Len(index) = 0))

\* An invocation has adopted the count of the rows the webhook handler left
\* and is about to send its first query.
C31_Witness ==
    /\ sc["b1"].pc = "query" /\ sc["b1"].loopCount = 1
    /\ sc["b1"].totalIndexed = Len(index)
    /\ Len(index) >= 1
    /\ progress = <<[last_cursor |-> 0, total_indexed |-> Len(index),
                     completed |-> FALSE]>>

----------------------------------------------------------------------------
(* A failed call in the loop of an invocation *)

\* What the invocation persisted after the last page it processed in full,
\* or read at its start when it has processed none: while it waits for the
\* answer to a query these are its loop variables; while it indexes a page
\* the cursor is the one the query was sent with.
LastCheckpoint(b) ==
    IF b.pc = "query"
    THEN [last_cursor |-> b.cursor, total_indexed |-> b.totalIndexed,
          completed |-> FALSE]
    ELSE [last_cursor |-> IF b.pages[1] = db[1] THEN 0 ELSE b.pages[1],
          total_indexed |-> b.totalIndexed, completed |-> FALSE]

\* The page query or an INSERT of processBatch fails in this step and the
\* invocation answers with the error.
FailsInLoop ==
    /\ sc["b1"].pc \in {"query", "batch"}
    /\ sc'["b1"].pc = "done" /\ sc'["b1"].resp = "error"

----------------------------------------------------------------------------
(* The waits of retryWithBackoff *)

\* C33: in every copy of retryWithBackoff the first wait of a call is
\* initialDelay, every later wait is twice the wait before it, and a wait
\* follows every invocation that failed with an error that is retried, so
\* the wait after attempt i (from 0) is initialDelay * 2^i.
C33_WaitsDouble ==
    (rt.pc # "idle") =>
        /\ Len(rt.waits) >= 1 => rt.waits[1] = initialDelay
        /\ \A k \in 1..(Len(rt.waits) - 1) : rt.waits[k + 1] = 2 * rt.waits[k]
        /\ Len(rt.waits) = rt.i
        /\ rt.pc = "wait" => Len(rt.waits) = rt.calls - 1
        /\ rt.pc = "try" => Len(rt.waits) = rt.calls

\* A call has returned at its third invocation, after waits of one and two
\* seconds.
C33_Witness ==
    /\ rt.pc = "returned"
    /\ rt.calls = 3
    /\ rt.waits = <<1000, 2000>>

----------------------------------------------------------------------------
(* One index builder at a time, killed at any point, next to the webhook
   workers *)

\* Two webhook workers and one index builder run at once; the builder may
\* pause, fail at an INSERT or at the UPDATE of its progress, or be killed
\* at any point, in the middle of a page too, and is then invoked again.
NextCount ==
    \/ \E s \in Handlers : \E ev \in RecordDeliveries : HStart(s, ev, TRUE)
    \/ \E s \in Handlers : HFetchOwn(s, TRUE)
    \/ \E s \in Handlers : HTagOwn(s, TRUE)
    \/ \E s \in Handlers : HFetchDup(s, TRUE)
    \/ \E s \in Handlers : HTagDup(s, TRUE)
    \/ \E s \in Handlers : HInsert(s, TRUE)
    \/ \E s \in Handlers : HReturn(s)
    \/ BGetProgress("b1", TRUE)
    \/ BInitProgress("b1", TRUE)
    \/ BCount("b1", TRUE)
    \/ BAdopt("b1", TRUE)
    \/ \E t \in 0..2 : BLoop("b1", t)
    \/ BQuery("b1", TRUE)
    \/ \E ok \in BOOLEAN : BProcessPage("b1", ok)
    \/ \E ok \in BOOLEAN : \E t \in 0..2 : BPersist("b1", ok, t)
    \/ BReturn("b1")
    \/ BCrash("b1")

SpecCount == InitConc /\ [][NextCount]_vars

\* C34: with one index builder at a time, whatever the webhook workers
\* insert and wherever the builder is killed, the total_indexed of the
\* progress row is at most the number of rows of name_index.
C34_TotalAtMostRows ==
    progress # <<>> => progress[1].total_indexed <= Len(index)

\* A builder was killed in the middle of a page after it had persisted one,
\* and a worker has inserted a row: the index has more rows than the
\* progress row counts.
C34_Witness ==
    /\ progress # <<>>
    /\ progress[1].total_indexed >= 1
    /\ progress[1].last_cursor = BATCH_SIZE + 1
    /\ progress[1].total_indexed < Len(index)
    /\ sc["b1"].pc = "idle"

----------------------------------------------------------------------------
(* The Real-time Detector when records are renamed between deliveries *)

\* The name of a record is edited in Notion; the next delivery for the
\* record carries the new name.  The handler reads the name from the body
\* of the delivery only, so an edit during a delivery acts like one after it.
Rename(i, t) ==
    /\ hs["h1"].pc = "idle"
    /\ t # titles[i]
    /\ titles' = [titles EXCEPT ![i] = t]
    /\ UNCHANGED <<db, tags, index, progress, hs, sc, hist, nrm, rc, rt, flagType>>

NextRename ==
    \/ \E ev \in Deliveries : \E ok \in BOOLEAN : HStart("h1", ev, ok)
    \/ \E ok \in BOOLEAN : HFetchOwn("h1", ok)
    \/ \E ok \in BOOLEAN : HTagOwn("h1", ok)
    \/ \E ok \in BOOLEAN : HFetchDup("h1", ok)
    \/ \E ok \in BOOLEAN : HTagDup("h1", ok)
    \/ \E ok \in BOOLEAN : HInsert("h1", ok)
    \/ HReturn("h1")
    \/ \E i \in Ids : \E t \in DetTitles : Rename(i, t)

SpecRename == InitDetBuilt /\ [][NextRename]_vars

InSeq(seq, x) == \E k \in 1..Len(seq) : seq[k] = x

\* The last delivery was handled to the end without failure.
HandledClean == hist.pageId # 0 /\ hist.clean

\* C35 as claimed: after a delivery (recordID, rawName) was handled without
\* failure, the lookup of normalize(rawName) contains recordID, also when
\* the record was indexed earlier under another name.
C35_LookupContainsRecord ==
    HandledClean =>
        InSeq(findDuplicatePages(index, normalizeName(hist.name)), hist.pageId)

\* The handler's insert of a delivery that ends without failure.
CleanInsert ==
    /\ hs["h1"].pc = "insert"
    /\ hs'["h1"].pc = "done"
    /\ hs'["h1"].resp.success
    /\ hs["h1"].failed = {}

\* C35, amended: after a delivery (recordID, rawName) was handled without
\* failure the record is indexed, in one row; the lookup of
\* normalize(rawName) contains recordID when the record was not indexed
\* before the insert, and when it was, the index is left as it is, whatever
\* the name of its row.
C35_LookupContainsNewRecord ==
    /\ [](HandledClean => Cardinality(RowsOf(index, hist.pageId)) = 1)
    /\ [][CleanInsert =>
            IF hs["h1"].pageId \in IndexedIds(index)
            THEN index' = index
            ELSE InSeq(findDuplicatePages(index', normalizeName(hs["h1"].name)),
                       hs["h1"].pageId)]_vars

\* Both cases have happened: the record of the last delivery was renamed
\* after it was indexed, its redelivery under the new name was handled
\* without failure, and its row still carries the old key, next to a
\* record that was indexed under the delivered name.
C35_Witness ==
    /\ HandledClean
    /\ hs["h1"].pc = "done"
    /\ \E k \in 1..Len(index) :
          /\ index[k].pid = hist.pageId
          /\ ~NoCaseEq(index[k].name, normalizeName(hist.name))
    /\ \E k \in 1..Len(index) :
          /\ index[k].pid # hist.pageId
          /\ NoCaseEq(index[k].name, normalizeName(titles[index[k].pid][1]))

----------------------------------------------------------------------------
(* The Reconciler over a page source that repeats a record *)

\* fetchAllPages, one turn of its do-while loop, when the answer of Notion
\* holds once more a record p that an earlier answer of this run held (the
\* record moved in the order of the query while the run was paging).
RFetchBatchAgain(ok, p) ==
    /\ rc.pc = "fetchAll"
    /\ InSeq(rc.allPages, p)
    /\ LET response == queryNotionDatabase(db, rc.cursor, BATCH_SIZE)
           allPages == rc.allPages \o <<p>> \o response.results
       IN rc' = IF ~ok THEN [rc EXCEPT !.pc = "exit", !.failures = @ + 1]
                ELSE IF response.next_cursor # 0
                THEN [rc EXCEPT !.allPages = allPages,
                                !.cursor = response.next_cursor]
                ELSE EnterGroup([rc EXCEPT !.allPages = allPages, !.cursor = 0,
                                           !.nameMap = buildDuplicateMap(allPages)], 1)
    /\ UNCHANGED tags
    /\ ReconcilerFrame

InitRepeat ==
    /\ db = [i \in Ids |-> i]
    /\ titles \in [Ids -> BackfillTitles]
    /\ tags = [i \in Ids |-> <<>>]
    /\ index = <<>>
    /\ progress = <<>>
    /\ hs = [s \in Handlers |-> IdleHandler]
    /\ sc = [s \in Builders |-> IdleBuilder]
    /\ hist = NoDelivery(FALSE)
    /\ nrm = NrmIdle
    /\ rc = IdleReconciler
    /\ rt = IdleRetry
    /\ flagType = "multi_select"

NextRepeat ==
    \/ \E dryRun \in BOOLEAN : RStart(dryRun)
    \/ \E ok \in BOOLEAN : RFetchBatch(ok)
    \/ \E ok \in BOOLEAN : \E p \in Ids : RFetchBatchAgain(ok, p)
    \/ \E ok \in BOOLEAN : RFetchPage(ok)
    \/ \E ok \in BOOLEAN : RUpdateTags(ok)
    \/ RExit

SpecRepeat == InitRepeat /\ [][NextRepeat]_vars

\* C36: the Reconciler changes the tag of a record only if another record,
\* with a different ID, shares its canonical key, also when the paginated
\* source returns a record on more than one page.
C36_TaggedOnlyWithAnotherRecord ==
    [][\A i \in Ids :
        tags'[i] # tags[i] =>
            /\ HasName(i)
            /\ \E j \in GroupOf(i) : j # i]_vars

----------------------------------------------------------------------------
(* The Reconciler run over the select that the Real-time Detector writes *)

InitAgree ==
    /\ db = [i \in Ids |-> i]
    /\ titles = [i \in Ids |-> ConcTitle(i)]
    /\ tags = [i \in Ids |-> "null"]
    /\ index = <<>>
    /\ progress = <<>>
    /\ hs = [s \in Handlers |-> IdleHandler]
    /\ sc = [s \in Builders |-> IdleBuilder]
    /\ hist = NoDelivery(FALSE)
    /\ nrm = NrmIdle
    /\ rc = IdleReconciler
    /\ rt = IdleRetry
    /\ flagType = "select"

\* The webhook handler takes deliveries while the backfill script is not
\* running, and the script is run, dry or not, between two deliveries.
NextAgree ==
    \/ /\ rc.pc = "idle"
       /\ \/ \E ev \in RecordDeliveries : HStart("h1", ev, TRUE)
          \/ \E ok \in BOOLEAN : HFetchOwn("h1", ok)
          \/ \E ok \in BOOLEAN : HTagOwn("h1", ok)
          \/ \E ok \in BOOLEAN : HFetchDup("h1", ok)
          \/ \E ok \in BOOLEAN : HTagDup("h1", ok)
          \/ HInsert("h1", TRUE)
          \/ HReturn("h1")
    \/ /\ hs["h1"].pc = "idle"
       /\ NextBackfill

SpecAgree == InitAgree /\ [][NextAgree]_vars

\* The record the backfill script is at.
CurrentPage == rc.nameMap[rc.g].pages[rc.j]

\* C37: a record that the Real-time Detector has tagged (its select is
\* Duplicate) is recognised as tagged by the Reconciler: the tags fetched
\* for it hold the duplicate option, and the update step skips it, sending
\* no update and counting neither a tagged record nor a failure.
C37_DetectorTagRecognised ==
    /\ [][(/\ rc.pc = "fetchPage"
           /\ rc'.pc = "updateTags"
           /\ tags[CurrentPage] = "Duplicate") =>
              hasDuplicateTagBackfill(rc'.currentTags)]_vars
    /\ [][(/\ rc.pc = "updateTags"
           /\ tags[CurrentPage] = "Duplicate"
           /\ rc' # rc) =>
              /\ tags' = tags
              /\ rc'.skipped = rc.skipped + 1
              /\ rc'.tagged = rc.tagged
              /\ rc'.failures = rc.failures]_vars

----------------------------------------------------------------------------
(* The Real-time Detector at work while the Resumable Scanner builds the
   index: SpecCount, where every call of the webhook workers succeeds *)

AllQuiet == \A s \in Handlers : hs[s].pc \in {"idle", "done"}

\* A worker has handled a delivery to its end, with success.
SomeHandled == \E s \in Handlers : hs[s].pc = "done" /\ hs[s].resp.success

MatchesOf(idx, name, pageId) ==
    {idx[k].pid : k \in {q \in 1..Len(idx) :
                            /\ idx[q].pid # pageId
                            /\ NoCaseEq(idx[q].name, normalizeName(name))}}

----------------------------------------------------------------------------
(* The completion flag under two overlapping invocations of the builder *)

\* C39: with two invocations of the index builder overlapping in time, no
\* step writes completed = false over a persisted completed = true.
C39_CompletedNeverCleared ==
    [][ScanCompleted => (progress' # <<>> /\ progress'[1].completed)]_vars

\* C39, amended: completed = true is overwritten with completed = false only
\* by the bootstrap or page write of an invocation whose own read of the
\* progress row returned completed = false; an invocation that has read
\* completed = true writes nothing.
C39_ClearedOnlyByStaleInvocation ==
    /\ [][(ScanCompleted /\ ~(progress' # <<>> /\ progress'[1].completed)) =>
            \E s \in Builders :
                /\ sc'[s] # sc[s]
                /\ sc[s].pc \in {"adopt", "persist"}
                /\ ~sc[s].progress.completed]_vars
    /\ [][\A s \in Builders :
            (sc'[s] # sc[s] /\ sc[s].pc # "idle" /\ sc[s].progress.completed) =>
                progress' = progress]_vars

\* One invocation has returned "complete" and the write of the other, which
\* had read the progress row before, has cleared the flag.
C39_Witness ==
    /\ sc["b1"].pc = "done"
    /\ sc["b1"].resp = "complete"
    /\ sc["b2"].pc \notin {"idle", "done"}
    /\ progress # <<>>
    /\ ~progress[1].completed

----------------------------------------------------------------------------
(* Records whose name is only whitespace *)

\* Names of the records: a blank, a tab and a blank, and a proper name.
BlankTitles == {<< <<" ">> >>, << <<"\t", " ">> >>, << <<"A">> >>}

InitBlank ==
    /\ db = [i \in Ids |-> i]
    /\ titles \in [Ids -> BlankTitles]
    /\ tags = [i \in Ids |-> "null"]
    /\ index = <<>>
    /\ progress = <<>>
    /\ hs = [s \in Handlers |-> IdleHandler]
    /\ sc = [s \in Builders |-> IdleBuilder]
    /\ hist = NoDelivery(FALSE)
    /\ nrm = NrmIdle
    /\ rc = IdleReconciler
    /\ rt = IdleRetry
    /\ flagType = "select"

\* One webhook worker and one invocation of the index builder at a time,
\* interleaved; every call succeeds and the builder stays within its budget.
NextBlank ==
    \/ \E ev \in RecordDeliveries : HStart("h1", ev, TRUE)
    \/ HFetchOwn("h1", TRUE)
    \/ HTagOwn("h1", TRUE)
    \/ HFetchDup("h1", TRUE)
    \/ HTagDup("h1", TRUE)
    \/ HInsert("h1", TRUE)
    \/ HReturn("h1")
    \/ BGetProgress("b1", TRUE)
    \/ BInitProgress("b1", TRUE)
    \/ BCount("b1", TRUE)
    \/ BAdopt("b1", TRUE)
    \/ BLoop("b1", 0)
    \/ BQuery("b1", TRUE)
    \/ BProcessPage("b1", TRUE)
    \/ BPersist("b1", TRUE, 0)
    \/ BReturn("b1")

SpecBlank == InitBlank /\ [][NextBlank]_vars

\* The name of the record consists of whitespace only.
WhitespaceOnly(i) == HasName(i) /\ trim(titles[i][1]) = <<>>

\* C40: no index row has an empty canonical key, and a record whose name is
\* only whitespace is skipped like one without a name: it is neither
\* indexed nor tagged.
C40_NoEmptyKey ==
    /\ \A r \in 1..Len(index) : index[r].name # <<>>
    /\ \A i \in Ids : WhitespaceOnly(i) => (i \notin IndexedIds(index) /\ ~Tagged(i))

============================================================================
